---- MODULE Spec2Model ----
(***************************************************************************)
(* Pull-based execution of a dataflow pipeline of VisTrails modules        *)
(* (vistrails/core/modules/vistrails_module.py).                           *)
(*                                                                         *)
(* Module.update() is recursive; the recursion is modelled by an explicit  *)
(* call stack of frames, one frame per active update() call.  A frame's pc *)
(* is the position of that call inside update(), update_upstream() or      *)
(* compute_while().  An exception in flight, or the normal return of the   *)
(* callee, is held in ret until the caller's handler consumes it.          *)
(*                                                                         *)
(* Python lists are objects: a shallow copy of a module shares the         *)
(* connector lists of its input ports with the original.  The lists live   *)
(* in a heap (lists), and an input-port dict maps a port name to the       *)
(* reference of its list.                                                  *)
(***************************************************************************)
EXTENDS Integers, Sequences, FiniteSets, TLC

(* ------------------------------ bounds --------------------------------- *)
\* number of modules of the pipeline
NumModules == 3
\* largest number of connectors on one input port
MaxConn == 2
\* largest number of connectors in the whole pipeline
MaxEdges == 3
\* largest number of connectors in a pipeline with a while loop
MaxLoopEdges == 1
\* largest value of the __while_max__ annotation
MaxIter == 2
\* largest number of connectors in a pipeline that is set up before it runs
MaxSetupEdges == 2

\* largest number of elements of a list a source module holds
MaxElems == 2
\* largest number of connectors of the module that iterates over lists
MaxBatchEdges == 2
\* largest number of iterations of a batch iteration
MaxBatch == 4
\* largest number of connectors in a pipeline with streams
MaxStreamEdges == 2
\* largest number of types a connector declares
MaxTypes == 2

(* -------------------------- program constants -------------------------- *)
\* max_iterations of compute_while() without a __while_max__ annotation
DefaultMaxIterations == 20

WHILE_COND_KEY == "__while_cond__"
WHILE_INPUT_KEY == "__while_input__"
WHILE_OUTPUT_KEY == "__while_output__"
WHILE_MAX_KEY == "__while_max__"
LOOP_KEY == "__loop_type__"

\* the modules of the pipeline
Modules == 1..NumModules
\* the copy compute_while() of module m makes of it; m can itself be the
\* copy another engine made of a module of the pipeline
CloneOf(m) ==
    IF m <= NumModules THEN NumModules + m
    ELSE (3 + Len(<<"p", "q">>)) * NumModules + (m - NumModules)
\* the constant module that carries the loop state into the copy of m
ConstOf(m) ==
    IF m <= NumModules THEN 2 * NumModules + m
    ELSE (4 + Len(<<"p", "q">>)) * NumModules + (m - NumModules)

\* input port names; a dict is iterated in one fixed order
PortOrder == <<"p", "q">>
PortNames == {PortOrder[i] : i \in 1..Len(PortOrder)}

\* the constant module that carries an element to port number j of the copy
\* c an iteration engine makes
ElemConstOf(c, j) == 3 * NumModules + (c - NumModules - 1) * Len(PortOrder) + j
\* every module object there can be
AllIds == 1..(5 * NumModules + NumModules * Len(PortOrder))

(* ------------------------------ values --------------------------------- *)
None == [k |-> "None"]
InvalidOutput == [k |-> "InvalidOutput"]
Val == [k |-> "int", v |-> 1]
Zero == [k |-> "int", v |-> 0]
\* the Python int i
IntOf(i) == [k |-> "int", v |-> i]
SelfRef(m) == [k |-> "module", id |-> m]
\* a Python list
List(values) == [k |-> "list", values |-> values]
\* Iterator(values, depth): a materialized list of nesting depth depth
Iterator(values, depth) ==
    [k |-> "Iterator", values |-> values, list_depth |-> depth]

\* Iterator(depth=.., size=.., module=.., generator=.., port=..): a lazy
\* list that is produced by pulling; module is the driver copy whose output
\* port holds the element pulled last, generator the module that owns the
\* generator object
StreamIterator(depth, size, module, generator, port) ==
    [k |-> "Iterator", list_depth |-> depth, size |-> size,
     module |-> module, generator |-> generator, port |-> port]
\* what a generator yields
True == [k |-> "True"]

\* a Python str, as the sequence of its characters
Str(chars) == [k |-> "str", chars |-> chars]
\* a Python tuple
Tuple(values) == [k |-> "tuple", values |-> values]

\* Python truth value of an output value
Truthy(v) == v \notin {None, Zero, Str(<<>>), List(<<>>), Tuple(<<>>)}

(* ---------------------------- exceptions ------------------------------- *)
\* ret while no call has finished
NoRet == [type |-> "none"]
\* ret after update() of module m returned normally; how: the return
\* statement taken ("computed", "cached" or "finished")
Returned(m, how) == [type |-> "return", module |-> m, how |-> how]
\* ret after the generator of module g ran to its next yield
Yielded(g, token) == [type |-> "yield", module |-> g, token |-> token]
\* ret after the computation of module m returned normally
Computed(m) == [type |-> "done", module |-> m]

\* ModuleHadError(module)
ModuleHadError(m) == [type |-> "ModuleHadError", module |-> m]
\* ModuleWasSuspended(module), a subclass of ModuleHadError
ModuleWasSuspended(m) == [type |-> "ModuleWasSuspended", module |-> m]
\* ModuleError(module, errormsg); ctx: whether me.module has an 'interpreter'
ModuleError(m, msg, ctx) ==
    [type |-> "ModuleError", module |-> m, msg |-> msg, ctx |-> ctx]
\* ModuleSuspended(module, errormsg, children=...), a subclass of ModuleError
ModuleSuspended(m, msg, children) ==
    [type |-> "ModuleSuspended", module |-> m, msg |-> msg,
     children |-> children, loop_iteration |-> None]
\* ModuleErrors(module_errors)
ModuleErrors(m) == [type |-> "ModuleErrors", module |-> m]
\* ModuleBreakpoint(module)
ModuleBreakpoint(m) == [type |-> "ModuleBreakpoint", module |-> m]
\* any other exception a compute() lets escape
OtherException(m, cls) == [type |-> cls, module |-> m]

IsException(r) == r.type \notin {"none", "return", "done", "yield"}

VARIABLES
    mods,       \* module id -> the Module object's fields
    lists,      \* list reference -> the connectors of that list object
    pipeline,   \* module id -> the module's description in the pipeline
    stack,      \* the active update() calls, innermost last
    ret,        \* what the call that finished last returned or raised
    target,     \* the module the external caller asks to update, 0 at first
    log         \* what the logging sink was told, per module: the calls of
                \* begin_compute and of begin_iteration

vars == <<mods, lists, pipeline, stack, ret, target, log>>

(* ------------------------------ helpers -------------------------------- *)
SeqsUpTo(S, n) == UNION {[1..k -> S] : k \in 1..n}

Range(q) == {q[i] : i \in 1..Len(q)}

\* the keys of dict ip, in dict iteration order
RECURSIVE PortsFrom(_, _)
PortsFrom(ip, i) ==
    IF i > Len(PortOrder) THEN <<>>
    ELSE (IF PortOrder[i] \in DOMAIN ip THEN <<PortOrder[i]>> ELSE <<>>)
         \o PortsFrom(ip, i + 1)

\* the elements of the lists f[ports[1]], f[ports[2]], ... one after another
RECURSIVE ConnsOf(_, _)
ConnsOf(f, ports) ==
    IF ports = <<>> THEN <<>>
    ELSE f[Head(ports)] \o ConnsOf(f, Tail(ports))

\* the connector lists of input-port dict ip in heap h, as one dict of lists
Deref(ip, h) == [p \in DOMAIN ip |-> h[ip[p]]]

\* AllConnectors that stops after the first port
AllConnectors_firstPort(ip) ==
    IF PortsFrom(ip, 1) = <<>> THEN <<>>
    ELSE lists[ip[Head(PortsFrom(ip, 1))]]

\* for connectorList in self.inputPorts.itervalues(): for connector in ...
AllConnectors(ip) == ConnsOf(Deref(ip, lists), PortsFrom(ip, 1))

Top == stack[Len(stack)]
Pop == SubSeq(stack, 1, Len(stack) - 1)
SetTop(f) == [stack EXCEPT ![Len(stack)] = f]

\* ModuleConnector(obj, port); id tells connector objects apart
ModuleConnector(obj, port, id) == [obj |-> obj, port |-> port, id |-> id]

\* the reference of the list module m created for its input port p
Ref(m, p) == <<m, p>>

\* Module.get_output for a port that is enabled
get_output(m, port) == mods[m].outputPorts[port]

\* p_module.has_annotation_with_key(key) on the pipeline module of m; a
\* module outside a pipeline (moduleInfo['pipeline'] is None) has none
has_annotation_with_key(m, key) ==
    /\ mods[m].moduleId \in DOMAIN pipeline
    /\ key \in DOMAIN pipeline[mods[m].moduleId].annotations

\* p_module.get_annotation_by_key(key).value
get_annotation_by_key(m, key) == pipeline[mods[m].moduleId].annotations[key]

\* the dict or function f with key k set to v
Put(f, k, v) == [x \in (DOMAIN f) \cup {k} |-> IF x = k THEN v ELSE f[x]]

\* the dict f without key k
Del(f, k) == [x \in (DOMAIN f) \ {k} |-> f[x]]

(* ------------------------------- Init ---------------------------------- *)
\* a module that has made no generator
NoGenerator == [kind |-> "none"]

\* Module.__init__: all flags false, the 'self' output set; the output port
\* the pipeline connects is enabled; generator is the place of the generator
\* object the streaming methods of the module make, which the Iterators on
\* its output ports share
NewModule(m, ip) ==
    [upToDate |-> FALSE, computed |-> FALSE,
     had_error |-> FALSE, was_suspended |-> FALSE,
     is_while |-> FALSE,
     is_breakpoint |-> FALSE,
     list_depth |-> 0,
     moduleId |-> m,
     generator |-> NoGenerator,
     inputPorts |-> ip,
     outputPorts |-> [o \in {"self", "value"} |->
                         IF o = "self" THEN SelfRef(m) ELSE None]]

\* the input ports module m can be wired with (set_input_port), every
\* connector coming from a module of smaller id (acyclic): port -> connectors
Wirings(m) ==
    IF m = 1 THEN {[p \in {} |-> <<>>]}
    ELSE UNION {
           {[p \in D |-> [i \in 1..Len(f[p]) |->
                            ModuleConnector(f[p][i], "value", i)]] :
              f \in [D -> SeqsUpTo(1..(m - 1), MaxConn)]} :
           D \in SUBSET PortNames}

NumConnectors(w) == Len(ConnsOf(w, PortsFrom(w, 1)))

RECURSIVE TotalConnectors(_)
TotalConnectors(ws) ==
    IF ws = <<>> THEN 0
    ELSE NumConnectors(Head(ws)) + TotalConnectors(Tail(ws))

\* the wirings each module can have
WiringsOf == [m \in Modules |-> Wirings(m)]

\* the wirings of modules 1..m with at most e connectors in all
RECURSIVE Pipelines(_, _)
Pipelines(m, e) ==
    IF m = 0 THEN {<<>>}
    ELSE UNION {{Append(ws, w) :
                   w \in {x \in WiringsOf[m] :
                            NumConnectors(x) + TotalConnectors(ws) <= e}} :
                  ws \in Pipelines(m - 1, e)}

AllPipelines == Pipelines(NumModules, MaxEdges)
LoopPipelines == Pipelines(NumModules, MaxLoopEdges)
SetupPipelines == Pipelines(NumModules, MaxSetupEdges)

NoAnnotations == [key \in {} |-> None]

\* the annotations of a while loop: each argument is <<>> for a key that is
\* not set, <<v>> for a key set to v
Annotations(max, cond, input, output) ==
    LET a == [key \in {WHILE_MAX_KEY, WHILE_COND_KEY,
                       WHILE_INPUT_KEY, WHILE_OUTPUT_KEY} |->
                CASE key = WHILE_MAX_KEY -> max
                  [] key = WHILE_COND_KEY -> cond
                  [] key = WHILE_INPUT_KEY -> input
                  [] OTHER -> output]
    IN [key \in {x \in DOMAIN a : a[x] # <<>>} |-> a[key][1]]

\* the annotations that make a module a while loop: a bound, with or without
\* a condition and state ports, or a condition alone
WhileConfigs ==
    {Annotations(<<n>>, cond, input, output) :
        n \in 0..MaxIter,
        cond \in {<<>>, <<"value">>, <<"absent">>},
        input \in {<<>>, <<"p">>},
        output \in {<<>>, <<"value">>}}
    \cup {Annotations(<<>>, <<"value">>, <<>>, <<>>)}

\* the state after the modules were constructed and wired as ws, module m
\* annotated with an[m]
InitWith(ws, an) ==
    /\ pipeline = [m \in Modules |->
                     [inputPorts |-> ws[m], annotations |-> an[m]]]
    /\ mods = [m \in Modules |->
                 NewModule(m, [p \in DOMAIN ws[m] |-> Ref(m, p)])]
    /\ lists = [r \in {Ref(m, p) : m \in AllIds, p \in PortNames} |->
                  IF r[1] \in Modules /\ r[2] \in DOMAIN ws[r[1]]
                  THEN ws[r[1]][r[2]] ELSE <<>>]
    /\ stack = <<>>
    /\ ret = NoRet
    /\ target = 0
    /\ log = [begin_compute |-> [m \in AllIds |-> 0],
           begin_iteration |-> [m \in AllIds |-> 0]]

\* a pipeline without annotations
Init ==
    \E ws \in AllPipelines :
        InitWith(ws, [m \in Modules |-> NoAnnotations])

\* a pipeline without annotations that is set up before it runs
InitSetup ==
    \E ws \in SetupPipelines :
        InitWith(ws, [m \in Modules |-> NoAnnotations])

\* the module that is the while loop: the last but one, which can have both
\* a source and a consumer
LoopModule == NumModules - 1

\* a pipeline whose module LoopModule is annotated as a while loop
InitWhile ==
    \E ws \in LoopPipelines, a \in WhileConfigs :
        InitWith(ws, [m \in Modules |->
                        IF m = LoopModule THEN a ELSE NoAnnotations])

(* --------------------------- update(): entry --------------------------- *)
\* a frame of update() on module m, at the top of the method; i, state and
\* brk are the locals of compute_while(), seen records what each upstream
\* call of update_upstream() returned or raised; ports, elements, outputs
\* and all_suspended (the list suspended) are the locals of compute_all()
Frame(m) ==
    [m |-> m, pc |-> "update", k |-> 1,
     suspended |-> <<>>, was_suspended |-> NoRet, seen |-> <<>>,
     i |-> 0, state |-> <<>>, brk |-> FALSE,
     ports |-> <<>>, elements |-> <<>>, outputs |-> <<>>,
     all_suspended |-> <<>>]

\* the external caller asks its target module m to update, any number of
\* times
Call(m) ==
    /\ stack = <<>>
    /\ target \in {0, m}
    /\ target' = m
    /\ stack' = <<Frame(m)>>
    /\ ret' = NoRet
    /\ UNCHANGED <<mods, lists, pipeline, log>>

\* UpdateGuard without the test of computed
UpdateGuard_noComputed(mod) ==
    IF mod.had_error THEN "had_error"
    ELSE IF mod.was_suspended THEN "was_suspended"
    ELSE "run"

\* UpdateGuard without the test of had_error
UpdateGuard_noHadError(mod) ==
    IF mod.was_suspended THEN "was_suspended"
    ELSE IF mod.computed THEN "computed"
    ELSE "run"

\* the first lines of update(): what the flags of the module decide
UpdateGuard(mod) ==
    IF mod.had_error THEN "had_error"
    ELSE IF mod.was_suspended THEN "was_suspended"
    ELSE IF mod.computed THEN "computed"
    ELSE "run"

\* update() up to logging.begin_update: fail on a poisoned module, return at
\* once on a computed one, otherwise go on to update_upstream()
UpdateEnter ==
    /\ stack # <<>>
    /\ Top.pc = "update"
    /\ LET m == Top.m
           g == UpdateGuard(mods[m])
       IN CASE g = "had_error" ->
                 /\ stack' = Pop
                 /\ ret' = ModuleHadError(m)
            [] g = "was_suspended" ->
                 /\ stack' = Pop
                 /\ ret' = ModuleWasSuspended(m)
            [] g = "computed" ->
                 /\ stack' = Pop
                 /\ ret' = Returned(m, "computed")
            [] OTHER ->
                 /\ stack' = SetTop([Top EXCEPT !.pc = "upstream"])
                 /\ ret' = NoRet
    /\ UNCHANGED <<mods, lists, pipeline, target, log>>

(* ------------------------- update_upstream() --------------------------- *)
\* the loop of update_upstream() calls update() on the next connector's module
UpstreamCall ==
    /\ stack # <<>>
    /\ Top.pc = "upstream"
    /\ LET conns == AllConnectors(mods[Top.m].inputPorts)
       IN /\ Top.k <= Len(conns)
          /\ stack' = Append(SetTop([Top EXCEPT !.pc = "upcall"]),
                             Frame(conns[Top.k].obj))
    /\ ret' = NoRet
    /\ UNCHANGED <<mods, lists, pipeline, target, log>>

\* Collect that lets a suspension end the loop
Collect_failFast(r) ==
    IF r.type = "return" THEN "next"
    ELSE IF r.type = "ModuleWasSuspended" THEN "was_suspended"
    ELSE "propagate"

\* Collect that goes on to the next connector after a ModuleError
Collect_swallowError(r) ==
    IF r.type \in {"return", "ModuleError"} THEN "next"
    ELSE IF r.type = "ModuleWasSuspended" THEN "was_suspended"
    ELSE IF r.type = "ModuleSuspended" THEN "suspended"
    ELSE "propagate"

\* the except clauses of the loop: what becomes of the callee's result
Collect(r) ==
    IF r.type = "return" THEN "next"
    ELSE IF r.type = "ModuleWasSuspended" THEN "was_suspended"
    ELSE IF r.type = "ModuleSuspended" THEN "suspended"
    ELSE "propagate"

\* UpstreamReturn that stays at the connector whose source it has updated
UpstreamReturn_again ==
    /\ stack # <<>>
    /\ Top.pc = "upcall"
    /\ LET c == Collect(ret)
       IN IF c \in {"next", "was_suspended", "suspended"}
          THEN /\ stack' = SetTop([Top EXCEPT !.pc = "upstream"])
               /\ ret' = NoRet
          ELSE /\ stack' = Pop
               /\ ret' = ret
    /\ UNCHANGED <<mods, lists, pipeline, target, log>>

\* connector.obj.update() came back into the loop of update_upstream()
UpstreamReturn ==
    /\ stack # <<>>
    /\ Top.pc = "upcall"
    /\ LET c == Collect(ret)
           top == [Top EXCEPT !.seen = Append(@, ret)]
       IN CASE c = "next" ->
                 /\ stack' = SetTop([top EXCEPT !.pc = "upstream",
                                                !.k = @ + 1])
                 /\ ret' = NoRet
            [] c = "was_suspended" ->
                 /\ stack' = SetTop([top EXCEPT !.pc = "upstream",
                                                !.k = @ + 1,
                                                !.was_suspended = ret])
                 /\ ret' = NoRet
            [] c = "suspended" ->
                 /\ stack' = SetTop([top EXCEPT
                                       !.pc = "upstream",
                                       !.k = @ + 1,
                                       !.suspended = Append(@, ret)])
                 /\ ret' = NoRet
            [] OTHER ->
                 /\ stack' = Pop
                 /\ ret' = ret
    /\ UNCHANGED <<mods, lists, pipeline, target, log>>

\* UpstreamRaise that forgets a ModuleWasSuspended it caught
UpstreamRaise_dropPoison(m, suspended, was_suspended) ==
    IF Len(suspended) = 1 THEN suspended[1]
    ELSE IF suspended # <<>>
    THEN ModuleSuspended(m, "multiple suspended upstream modules", suspended)
    ELSE NoRet

\* UpstreamRaise that tests was_suspended first
UpstreamRaise_poisonFirst(m, suspended, was_suspended) ==
    IF was_suspended # NoRet THEN was_suspended
    ELSE IF Len(suspended) = 1 THEN suspended[1]
    ELSE IF suspended # <<>>
    THEN ModuleSuspended(m, "multiple suspended upstream modules", suspended)
    ELSE NoRet

\* after the loop: the exception update_upstream() raises, NoRet for none
UpstreamRaise(m, suspended, was_suspended) ==
    IF Len(suspended) = 1 THEN suspended[1]
    ELSE IF suspended # <<>>
    THEN ModuleSuspended(m, "multiple suspended upstream modules", suspended)
    ELSE IF was_suspended # NoRet THEN was_suspended
    ELSE NoRet

RemoveAt(s, i) == SubSeq(s, 1, i - 1) \o SubSeq(s, i + 1, Len(s))

\* index of the first element of conList that is connector, 0 if none
RECURSIVE IndexOf(_, _, _)
IndexOf(conList, connector, i) ==
    IF i > Len(conList) THEN 0
    ELSE IF conList[i] = connector THEN i
    ELSE IndexOf(conList, connector, i + 1)

\* Module.remove_input_connector on a module whose input-port dict is st.ip,
\* in the heap st.h: the list object loses the connector, the dict loses the
\* key of a list that is empty
remove_input_connector(st, port_name, connector) ==
    IF port_name \in DOMAIN st.ip
    THEN LET r == st.ip[port_name]
             i == IndexOf(st.h[r], connector, 1)
             conList == IF i = 0 THEN st.h[r] ELSE RemoveAt(st.h[r], i)
         IN [ip |-> IF conList = <<>> THEN Del(st.ip, port_name) ELSE st.ip,
             h |-> [st.h EXCEPT ![r] = conList]]
    ELSE st

\* for connector in connectorList: the list iterator is at index i of the
\* list object r of port iport while remove_input_connector shortens that
\* same list
RECURSIVE DropConnectors(_, _, _, _)
DropConnectors(st, r, iport, i) ==
    IF i > Len(st.h[r]) THEN st
    ELSE LET connector == st.h[r][i]
         IN IF get_output(connector.obj, connector.port) = InvalidOutput
            THEN DropConnectors(
                     remove_input_connector(st, iport, connector),
                     r, iport, i + 1)
            ELSE DropConnectors(st, r, iport, i + 1)

\* for iport, connectorList in copy.copy(self.inputPorts.items()); items is
\* the copied list of (port, list object) pairs
RECURSIVE DropPorts(_, _)
DropPorts(st, items) ==
    IF items = <<>> THEN st
    ELSE DropPorts(DropConnectors(st, Head(items)[2], Head(items)[1], 1),
                   Tail(items))

\* self.inputPorts.items()
Items(ip) == [i \in 1..Len(PortsFrom(ip, 1)) |->
                <<PortsFrom(ip, 1)[i], ip[PortsFrom(ip, 1)[i]]>>]

\* the last loop of update_upstream(): drop the InvalidOutput connectors
RemoveInvalid(ip, h) == DropPorts([ip |-> ip, h |-> h], Items(ip))

\* UpstreamEnd that marks the module as suspended when it raises
UpstreamEnd_marking ==
    /\ stack # <<>>
    /\ Top.pc = "upstream"
    /\ Top.k > Len(AllConnectors(mods[Top.m].inputPorts))
    /\ LET m == Top.m
           e == UpstreamRaise(m, Top.suspended, Top.was_suspended)
           st == RemoveInvalid(mods[m].inputPorts, lists)
       IN IF e # NoRet
          THEN /\ stack' = Pop
               /\ ret' = e
               /\ mods' = [mods EXCEPT ![m].was_suspended = TRUE]
               /\ UNCHANGED lists
          ELSE /\ stack' = SetTop([Top EXCEPT !.pc = "upstream_done"])
               /\ ret' = NoRet
               /\ mods' = [mods EXCEPT ![m].inputPorts = st.ip]
               /\ lists' = st.h
    /\ UNCHANGED <<pipeline, target, log>>

\* the loop of update_upstream() is over: raise what was collected, or
\* drop the connectors whose source produced InvalidOutput
UpstreamEnd ==
    /\ stack # <<>>
    /\ Top.pc = "upstream"
    /\ Top.k > Len(AllConnectors(mods[Top.m].inputPorts))
    /\ LET m == Top.m
           e == UpstreamRaise(m, Top.suspended, Top.was_suspended)
           st == RemoveInvalid(mods[m].inputPorts, lists)
       IN IF e # NoRet
          THEN /\ stack' = Pop
               /\ ret' = e
               /\ UNCHANGED <<mods, lists>>
          ELSE /\ stack' = SetTop([Top EXCEPT !.pc = "upstream_done"])
               /\ ret' = NoRet
               /\ mods' = [mods EXCEPT ![m].inputPorts = st.ip]
               /\ lists' = st.h
    /\ UNCHANGED <<pipeline, target, log>>

(* ------------------------ update(): computation ------------------------ *)
\* CacheCheck that takes no module for up to date
CacheCheck_noHit ==
    /\ stack # <<>>
    /\ Top.pc = "upstream_done"
    /\ mods' = [mods EXCEPT ![Top.m].had_error = TRUE]
    /\ stack' = SetTop([Top EXCEPT !.pc = "compute"])
    /\ ret' = NoRet
    /\ log' = [log EXCEPT !.begin_compute[Top.m] = @ + 1]
    /\ UNCHANGED <<lists, pipeline, target>>

\* update() after update_upstream(): a module that is up to date is a
\* cache hit, any other is poisoned until its computation succeeds
CacheCheck ==
    /\ stack # <<>>
    /\ Top.pc = "upstream_done"
    /\ LET m == Top.m
       IN IF mods[m].upToDate
          THEN /\ mods' = [mods EXCEPT ![m].computed = TRUE]
               /\ stack' = Pop
               /\ ret' = Returned(m, "cached")
               /\ UNCHANGED log
          ELSE /\ mods' = [mods EXCEPT ![m].had_error = TRUE]
               /\ stack' = SetTop([Top EXCEPT !.pc = "compute"])
               /\ ret' = NoRet
               /\ log' = [log EXCEPT !.begin_compute[m] = @ + 1]
    /\ UNCHANGED <<lists, pipeline, target>>

\* port_spec.depth of every port of the pipelines here: no port is declared
\* as a list
PortSpecDepth == 0

\* connector.depth(): the list depth of the value the connector carries
depth(connector) ==
    LET result == get_output(connector.obj, connector.port)
    IN IF result.k = "Iterator" THEN result.list_depth ELSE 0

\* the depths above that of the port of the connectors in conList from
\* index i on that are too deep for the port, in list order
RECURSIVE OverDepths(_, _)
OverDepths(conList, i) ==
    IF i > Len(conList) THEN <<>>
    ELSE (IF depth(conList[i]) - PortSpecDepth > 0
          THEN <<depth(conList[i]) - PortSpecDepth>> ELSE <<>>)
         \o OverDepths(conList, i + 1)

\* set_iterated_ports(): every input port with a connector that is too deep
\* for the port, with the depth of the last such connector
iterated_ports(m) ==
    LET ip == mods[m].inputPorts
        over == [p \in DOMAIN ip |-> OverDepths(lists[ip[p]], 1)]
    IN [p \in {x \in DOMAIN ip : over[x] # <<>>} |->
          over[p][Len(over[p])]]

\* isinstance(value, Iterator) and value.module
IsStream(value) == value.k = "Iterator" /\ "module" \in DOMAIN value

\* set_streamed_ports(): every input port with a connector that carries a
\* pull-driven Iterator, with the Iterator of the last such connector
streamed_ports(m) ==
    LET ip == mods[m].inputPorts
        st == [p \in DOMAIN ip |->
                 SelectSeq(lists[ip[p]],
                           LAMBDA c : IsStream(get_output(c.obj, c.port)))]
    IN [p \in {x \in DOMAIN ip : st[x] # <<>>} |->
          get_output(st[p][Len(st[p])].obj, st[p][Len(st[p])].port)]

\* Engine that does not look at is_while
Engine_noLatch(m) ==
    IF DOMAIN streamed_ports(m) # {} THEN "compute_streaming"
    ELSE
    IF DOMAIN iterated_ports(m) # {} THEN "compute_all"
    ELSE
    IF \/ has_annotation_with_key(m, WHILE_COND_KEY)
       \/ has_annotation_with_key(m, WHILE_MAX_KEY)
    THEN "compute_while"
    ELSE "compute"

\* Engine that looks at the annotations first
Engine_whileFirst(m) ==
    IF /\ ~mods[m].is_while
       /\ \/ has_annotation_with_key(m, WHILE_COND_KEY)
          \/ has_annotation_with_key(m, WHILE_MAX_KEY)
    THEN "compute_while"
    ELSE
    IF DOMAIN streamed_ports(m) # {} THEN "compute_streaming"
    ELSE
    IF DOMAIN iterated_ports(m) # {} THEN "compute_all"
    ELSE "compute"

\* the method update() runs for module m: compute_streaming() for a module
\* with an input that is a stream, compute_all() for a module with an input
\* that is a list where the port takes an element, compute_while() for a
\* module of a pipeline that carries a loop annotation and is not yet marked
\* is_while, compute() otherwise
Engine(m) ==
    IF DOMAIN streamed_ports(m) # {} THEN "compute_streaming"
    ELSE
    IF DOMAIN iterated_ports(m) # {} THEN "compute_all"
    ELSE
    IF /\ ~mods[m].is_while
       /\ \/ has_annotation_with_key(m, WHILE_COND_KEY)
          \/ has_annotation_with_key(m, WHILE_MAX_KEY)
    THEN "compute_while"
    ELSE "compute"

\* the values a compute() of module m may put on its output port: a module
\* whose output is a loop condition also produces a false value
OutValues(m) ==
    IF has_annotation_with_key(m, WHILE_COND_KEY)
    THEN {Val, Zero, InvalidOutput}
    ELSE {Val, InvalidOutput}

\* what a compute() may do: set its output and return, or raise
ComputeResults(m) ==
    {[type |-> "done", module |-> m, value |-> v] : v \in OutValues(m)}
    \cup {ModuleError(m, "compute failed", ctx) : ctx \in BOOLEAN}
    \cup {ModuleSuspended(m, "job is running", <<>>)}
    \cup {ModuleErrors(m)}
    \cup {OtherException(m, cls) : cls \in {"KeyboardInterrupt", "Exception"}}

\* Module.set_output for a value that is not a list
set_output(mod, port_name, value) ==
    [mod EXCEPT !.outputPorts[port_name] = value]

\* the compute() of module m is one that reads an input port
Reads(m) ==
    /\ mods[m].moduleId \in DOMAIN pipeline
    /\ "reads" \in DOMAIN pipeline[mods[m].moduleId]
    /\ pipeline[mods[m].moduleId].reads # <<>>

\* the try block of update(): the module's compute() runs, one that reads
\* no input port
Compute ==
    /\ stack # <<>>
    /\ Top.pc = "compute"
    /\ ~mods[Top.m].is_breakpoint
    /\ Engine(Top.m) = "compute"
    /\ ~Reads(Top.m)
    /\ \E r \in ComputeResults(Top.m) :
          /\ ret' = IF r.type = "done" THEN Computed(Top.m) ELSE r
          /\ mods' = IF r.type = "done"
                     THEN [mods EXCEPT
                             ![Top.m] = set_output(@, "value", r.value)]
                     ELSE mods
    /\ stack' = SetTop([Top EXCEPT !.pc = "computed"])
    /\ UNCHANGED <<lists, pipeline, target, log>>

\* ModuleError(self, msg) whose message msg is built from exception e
Wrapped(m, msg, e) ==
    [type |-> "ModuleError", module |-> m, msg |-> msg, ctx |-> TRUE,
     cause |-> e]

\* Reclassify that lets every exception through as it is
Reclassify_raw(m, e) == e

\* the except clauses of update(): the exception that leaves update() of
\* module m when its computation raised e
Reclassify(m, e) ==
    CASE e.type = "ModuleSuspended" -> e
      [] e.type = "ModuleError" ->
            IF e.ctx THEN e
            ELSE Wrapped(m, "A dynamic module raised an exception", e)
      [] e.type = "ModuleErrors" -> e
      [] e.type = "KeyboardInterrupt" ->
            ModuleError(m, "Interrupted by user", TRUE)
      [] e.type = "ModuleBreakpoint" -> e
      [] OTHER -> Wrapped(m, "Uncaught exception", e)

\* AfterComputeFlags whose suspension handler leaves the flags alone
AfterComputeFlags_noSuspend(mod, e) ==
    IF e.type = "done" THEN [mod EXCEPT !.computed = TRUE]
    ELSE mod

\* AfterComputeFlags that clears had_error for every ModuleError
AfterComputeFlags_clearOnError(mod, e) ==
    IF e.type = "done" THEN [mod EXCEPT !.computed = TRUE]
    ELSE IF e.type = "ModuleSuspended"
    THEN [mod EXCEPT !.had_error = FALSE, !.was_suspended = TRUE]
    ELSE IF e.type = "ModuleError"
    THEN [mod EXCEPT !.had_error = FALSE]
    ELSE mod

\* AfterComputeFlags whose suspension handler leaves had_error set
AfterComputeFlags_keepPoison(mod, e) ==
    IF e.type = "done" THEN [mod EXCEPT !.computed = TRUE]
    ELSE IF e.type = "ModuleSuspended"
    THEN [mod EXCEPT !.was_suspended = TRUE]
    ELSE mod

\* the flags of the module once its computation has returned or raised e
AfterComputeFlags(mod, e) ==
    IF e.type = "done" THEN [mod EXCEPT !.computed = TRUE]
    ELSE IF e.type = "ModuleSuspended"
    THEN [mod EXCEPT !.had_error = FALSE, !.was_suspended = TRUE]
    ELSE mod

\* the computation is over: computed is set, or the exception is handled
AfterCompute ==
    /\ stack # <<>>
    /\ Top.pc = "computed"
    /\ LET m == Top.m
       IN /\ mods' = [mods EXCEPT ![m] = AfterComputeFlags(@, ret)]
          /\ IF ret.type = "done"
             THEN /\ stack' = SetTop([Top EXCEPT !.pc = "finish"])
                  /\ ret' = NoRet
             ELSE /\ stack' = Pop
                  /\ ret' = Reclassify(m, ret)
    /\ UNCHANGED <<lists, pipeline, target, log>>

\* FinishFlags that does not set upToDate
FinishFlags_noUpToDate(mod) == [mod EXCEPT !.had_error = FALSE]

\* FinishFlags that does not clear had_error
FinishFlags_keepError(mod) == [mod EXCEPT !.upToDate = TRUE]

\* the flags of the module at the end of a successful update()
FinishFlags(mod) == [mod EXCEPT !.upToDate = TRUE, !.had_error = FALSE]

\* the last lines of update(): up to date, no longer poisoned
Finish ==
    /\ stack # <<>>
    /\ Top.pc = "finish"
    /\ mods' = [mods EXCEPT ![Top.m] = FinishFlags(@)]
    /\ stack' = Pop
    /\ ret' = Returned(Top.m, "finished")
    /\ UNCHANGED <<lists, pipeline, target, log>>

(* --------------------------- compute_while() --------------------------- *)
\* name_condition: <<>> for None
name_condition(m) ==
    IF has_annotation_with_key(m, WHILE_COND_KEY)
    THEN <<get_annotation_by_key(m, WHILE_COND_KEY)>> ELSE <<>>

\* max_iterations that ignores the __while_max__ annotation
max_iterations_default(m) == DefaultMaxIterations

\* max_iterations
max_iterations(m) ==
    IF has_annotation_with_key(m, WHILE_MAX_KEY)
    THEN get_annotation_by_key(m, WHILE_MAX_KEY) ELSE DefaultMaxIterations

\* name_state_input: <<>> for None
name_state_input(m) ==
    IF has_annotation_with_key(m, WHILE_INPUT_KEY)
    THEN <<get_annotation_by_key(m, WHILE_INPUT_KEY)>> ELSE <<>>

\* name_state_output: <<>> for None
name_state_output(m) ==
    IF has_annotation_with_key(m, WHILE_OUTPUT_KEY)
    THEN <<get_annotation_by_key(m, WHILE_OUTPUT_KEY)>> ELSE <<>>

\* StatePortsMismatch that accepts every configuration
StatePortsMismatch_never(m) == FALSE

\* the check of the state ports fails
StatePortsMismatch(m) ==
    /\ name_state_input(m) # <<>> \/ name_state_output(m) # <<>>
    /\ \/ name_state_input(m) = <<>>
       \/ name_state_output(m) = <<>>
       \/ Len(name_state_input(m)) # Len(name_state_output(m))

\* Module.__copy__: the copy c has its own input-port dict, which holds the
\* list objects of the original, and its own output-port dict
Copy(mod, c) ==
    [mod EXCEPT !.outputPorts = [@ EXCEPT !["self"] = SelfRef(c)]]

\* create_constant(value): a Constant module outside any pipeline whose
\* output 'value' is set; Constant.setValue marks it up to date
create_constant(k, value) ==
    [set_output(NewModule(k, [p \in {} |-> Ref(k, p)]), "value", value)
        EXCEPT !.moduleId = 0, !.upToDate = TRUE]

\* update() takes the while branch and compute_while() starts: is_while is
\* set, the annotations are read, the module is copied
WhileBegin ==
    /\ stack # <<>>
    /\ Top.pc = "compute"
    /\ ~mods[Top.m].is_breakpoint
    /\ Engine(Top.m) = "compute_while"
    /\ LET m == Top.m
           c == CloneOf(m)
           self == [mods[m] EXCEPT !.is_while = TRUE]
       IN IF StatePortsMismatch(m)
          THEN /\ \E ctx \in BOOLEAN :
                     ret' = ModuleError(m, "Passing state between iterations",
                                        ctx)
               /\ mods' = [mods EXCEPT ![m] = self]
               /\ stack' = SetTop([Top EXCEPT !.pc = "computed"])
          ELSE /\ ret' = NoRet
               /\ mods' = Put([mods EXCEPT ![m] = self], c,
                              [Copy(self, c) EXCEPT !.had_error = FALSE])
               /\ stack' = SetTop([Top EXCEPT !.pc = "while_loop",
                                              !.i = 0,
                                              !.state = <<>>,
                                              !.brk = FALSE])
    /\ UNCHANGED <<lists, pipeline, target, log>>

\* set_input_port that does nothing
set_input_port_noop(st, id, port_name, conn) == st

\* Module.set_input_port on module id, whose input-port dict is st.ip, in
\* the heap st.h: conn is appended to the list of the port, or becomes the
\* only element of a new list object
set_input_port(st, id, port_name, conn) ==
    IF port_name \in DOMAIN st.ip
    THEN [ip |-> st.ip,
          h |-> [st.h EXCEPT ![st.ip[port_name]] = Append(@, conn)]]
    ELSE [ip |-> Put(st.ip, port_name, Ref(id, port_name)),
          h |-> [st.h EXCEPT ![Ref(id, port_name)] = <<conn>>]]

\* the body of the loop up to module.update(): the flags of the copy are
\* reset, from the second iteration on the state is put on the state input
\* port, and the copy is updated
WhileIterate ==
    /\ stack # <<>>
    /\ Top.pc = "while_loop"
    /\ ~Top.brk
    /\ Top.i < max_iterations(Top.m)
    /\ LET m == Top.m
           c == CloneOf(m)
           k == ConstOf(m)
           reset == [mods[c] EXCEPT !.upToDate = FALSE, !.computed = FALSE]
       IN IF mods[m].upToDate
          THEN UNCHANGED <<mods, lists>>
          ELSE IF Top.i > 0 /\ name_state_input(m) # <<>>
          THEN LET port == name_state_input(m)[1]
                   value == Top.state[1]
                   st == set_input_port(
                             [ip |-> Del(reset.inputPorts, port),
                              h |-> lists],
                             c, port, ModuleConnector(k, "value", Top.i))
               IN /\ mods' = Put([mods EXCEPT
                                    ![c] = [reset EXCEPT
                                              !.inputPorts = st.ip]],
                                 k, create_constant(k, value))
                  /\ lists' = st.h
          ELSE /\ mods' = [mods EXCEPT ![c] = reset]
               /\ UNCHANGED lists
    /\ stack' = Append(SetTop([Top EXCEPT !.pc = "while_call"]),
                       Frame(CloneOf(Top.m)))
    /\ ret' = NoRet
    /\ log' = [log EXCEPT !.begin_iteration[CloneOf(Top.m)] = @ + 1]
    /\ UNCHANGED <<pipeline, target>>

\* Tagged that leaves the exception as it is
Tagged_not(e, i) == e

\* e.loop_iteration = i
Tagged(e, i) == [e EXCEPT !.loop_iteration = IntOf(i)]

\* module.update() came back into the loop: a suspension is tagged with the
\* iteration and leaves compute_while() like any other exception; after a
\* normal return the condition is tested and the state is read
WhileReturn ==
    /\ stack # <<>>
    /\ Top.pc = "while_call"
    /\ LET m == Top.m
           c == CloneOf(m)
       IN CASE ret.type = "ModuleSuspended" ->
                 /\ ret' = Tagged(ret, Top.i)
                 /\ stack' = SetTop([Top EXCEPT !.pc = "computed"])
            [] IsException(ret) /\ ret.type # "ModuleSuspended" ->
                 /\ ret' = ret
                 /\ stack' = SetTop([Top EXCEPT !.pc = "computed"])
            [] OTHER ->
                 IF /\ name_condition(m) # <<>>
                    /\ name_condition(m)[1] \notin DOMAIN mods[c].outputPorts
                 THEN /\ \E ctx \in BOOLEAN :
                            ret' = ModuleError(c, "Invalid output port", ctx)
                      /\ stack' = SetTop([Top EXCEPT !.pc = "computed"])
                 ELSE IF /\ name_condition(m) # <<>>
                         /\ ~Truthy(get_output(c, name_condition(m)[1]))
                 THEN /\ ret' = NoRet
                      /\ stack' = SetTop([Top EXCEPT !.pc = "while_loop",
                                                     !.brk = TRUE])
                 ELSE /\ ret' = NoRet
                      /\ stack' = SetTop(
                            [Top EXCEPT
                               !.pc = "while_loop",
                               !.i = @ + 1,
                               !.state =
                                  IF name_state_output(m) # <<>>
                                  THEN <<get_output(c,
                                            name_state_output(m)[1])>>
                                  ELSE @])
    /\ UNCHANGED <<mods, lists, pipeline, target, log>>

\* WhileEnd that writes no output port
WhileEnd_noWriteBack ==
    /\ stack # <<>>
    /\ Top.pc = "while_loop"
    /\ Top.brk \/ Top.i >= max_iterations(Top.m)
    /\ ret' = Computed(Top.m)
    /\ stack' = SetTop([Top EXCEPT !.pc = "computed"])
    /\ UNCHANGED <<mods, lists, pipeline, target, log>>

\* the loop is over: every output port of the module gets the value the
\* copy has on it
WhileEnd ==
    /\ stack # <<>>
    /\ Top.pc = "while_loop"
    /\ Top.brk \/ Top.i >= max_iterations(Top.m)
    /\ LET m == Top.m
           c == CloneOf(m)
       IN mods' = [mods EXCEPT
                     ![m].outputPorts =
                        [o \in DOMAIN @ |-> get_output(c, o)]]
    /\ ret' = Computed(Top.m)
    /\ stack' = SetTop([Top EXCEPT !.pc = "computed"])
    /\ UNCHANGED <<lists, pipeline, target, log>>

(* ---------------------------- compute_all() ---------------------------- *)
\* type: the __loop_type__ annotation, 'pairwise' without one
loop_type(m) ==
    IF has_annotation_with_key(m, LOOP_KEY)
    THEN get_annotation_by_key(m, LOOP_KEY) ELSE "pairwise"

\* ports: the iterated ports whose depth is the list depth of the module, in
\* dict order
batch_ports(m) ==
    LET it == iterated_ports(m)
    IN SelectSeq(PortsFrom(it, 1), LAMBDA p : it[p] = mods[m].list_depth)

\* value = [value], n times
RECURSIVE Wrap(_, _)
Wrap(value, n) == IF n <= 0 THEN value ELSE Wrap(<<value>>, n - 1)

\* connector(): the value the connector carries, for an Iterator the list
\* it produces
Resolve(connector) ==
    LET result == get_output(connector.obj, connector.port)
    IN IF result.k = "Iterator" THEN result.values ELSE result

\* get_input_list(port_name) on a port the module has: one value per
\* connector, a value that is too shallow wrapped in lists
get_input_list(m, port_name) ==
    LET conList == lists[mods[m].inputPorts[port_name]]
    IN [i \in 1..Len(conList) |->
          Wrap(Resolve(conList[i]),
               mods[m].list_depth + PortSpecDepth - depth(conList[i]))]

\* [item for sublist in value for item in sublist]
RECURSIVE Flatten(_)
Flatten(value) ==
    IF value = <<>> THEN <<>> ELSE Head(value) \o Flatten(Tail(value))

\* the length of the shortest of the lists ls, of which there is one at least
RECURSIVE MinLen(_)
MinLen(ls) ==
    IF Len(ls) = 1 THEN Len(ls[1])
    ELSE LET r == MinLen(Tail(ls))
         IN IF Len(ls[1]) < r THEN Len(ls[1]) ELSE r

\* zip that stops after the first tuple
zip_first(ls) ==
    IF ls = <<>> \/ MinLen(ls) = 0 THEN <<>>
    ELSE <<[j \in 1..Len(ls) |-> ls[j][1]]>>

\* zip(*ls): the tuples of the elements of the same index, as many as the
\* shortest list has elements
zip(ls) ==
    IF ls = <<>> THEN <<>>
    ELSE [i \in 1..MinLen(ls) |-> [j \in 1..Len(ls) |-> ls[j][i]]]

\* product whose last list varies slowest
RECURSIVE product_colexicographic(_)
product_colexicographic(ls) ==
    IF ls = <<>> THEN << <<>> >>
    ELSE LET rest == product_colexicographic(SubSeq(ls, 1, Len(ls) - 1))
             last == ls[Len(ls)]
         IN Flatten([i \in 1..Len(last) |->
                       [j \in 1..Len(rest) |-> Append(rest[j], last[i])]])

\* list(product(*ls)): every tuple with one element of each list, the last
\* list varying fastest
RECURSIVE product(_)
product(ls) ==
    IF ls = <<>> THEN << <<>> >>
    ELSE LET rest == product(Tail(ls))
         IN Flatten([i \in 1..Len(Head(ls)) |->
                       [j \in 1..Len(rest) |-> <<Head(ls)[i]>> \o rest[j]]])

\* elements: the tuples of input values compute_all() iterates over
batch_elements(m) ==
    LET ports == batch_ports(m)
        ls == [j \in 1..Len(ports) |-> Flatten(get_input_list(m, ports[j]))]
    IN IF loop_type(m) = "pairwise" THEN zip(ls)
       ELSE IF loop_type(m) = "cartesian" THEN product(ls)
       ELSE <<>>

\* update() takes the branch of the iterated ports and compute_all() starts:
\* the elements are read from the input ports and the module is copied, the
\* copy one list level below it
BatchBegin ==
    /\ stack # <<>>
    /\ Top.pc = "compute"
    /\ ~mods[Top.m].is_breakpoint
    /\ Engine(Top.m) = "compute_all"
    /\ LET m == Top.m
           c == CloneOf(m)
       IN /\ mods' = Put(mods, c,
                         [Copy(mods[m], c) EXCEPT !.list_depth = @ - 1])
          /\ stack' = SetTop([Top EXCEPT !.pc = "all_loop",
                                         !.i = 0,
                                         !.ports = batch_ports(m),
                                         !.elements = batch_elements(m),
                                         !.outputs = <<>>,
                                         !.all_suspended = <<>>])
    /\ ret' = NoRet
    /\ UNCHANGED <<lists, pipeline, target, log>>

\* setInputValues(module, inputPorts, elementList) from port number j on,
\* in iteration i: the connectors of the port are replaced by one connector
\* from a new constant that holds the element; st.ms are the modules
RECURSIVE setInputValues(_, _, _, _, _, _)
setInputValues(st, c, inputPorts, elementList, j, i) ==
    IF j > Len(inputPorts) \/ j > Len(elementList) THEN st
    ELSE LET k == ElemConstOf(c, j)
             s1 == set_input_port(
                       [ip |-> Del(st.ip, inputPorts[j]), h |-> st.h],
                       c, inputPorts[j], ModuleConnector(k, "value", i + 1))
         IN setInputValues(
                [ip |-> s1.ip, h |-> s1.h,
                 ms |-> Put(st.ms, k, create_constant(k, elementList[j]))],
                c, inputPorts, elementList, j + 1, i)

\* ResetClone that also clears the suspension flag
ResetClone_clearSuspended(mod) ==
    [mod EXCEPT !.had_error = FALSE, !.was_suspended = FALSE]

\* module.had_error = False at the top of the loop body
ResetClone(mod) == [mod EXCEPT !.had_error = FALSE]

\* the body of the loop up to module.update(): the error flag of the copy is
\* cleared, the elements are type-checked in the first iteration, the flags
\* of the copy are reset, the elements of this iteration are put on the
\* iterated ports, and the copy is updated
BatchIterate ==
    /\ stack # <<>>
    /\ Top.pc = "all_loop"
    /\ Top.i < Len(Top.elements)
    /\ LET m == Top.m
           c == CloneOf(m)
           module == ResetClone(mods[c])
           reset == [module EXCEPT !.upToDate = FALSE, !.computed = FALSE]
           st == setInputValues(
                     [ip |-> reset.inputPorts, h |-> lists,
                      ms |-> [mods EXCEPT ![c] = reset]],
                     c, Top.ports, Top.elements[Top.i + 1], 1, Top.i)
           call == /\ stack' = Append(SetTop([Top EXCEPT !.pc = "all_call"]),
                                      Frame(c))
                   /\ ret' = NoRet
                   /\ log' = [log EXCEPT !.begin_iteration[c] = @ + 1]
       IN IF mods[m].upToDate
          THEN /\ mods' = [mods EXCEPT ![c] = module]
               /\ UNCHANGED lists
               /\ call
          ELSE \/ /\ mods' = [st.ms EXCEPT ![c].inputPorts = st.ip]
                  /\ lists' = st.h
                  /\ call
               \/ /\ Top.i = 0
                  /\ \E ctx \in BOOLEAN :
                        ret' = ModuleError(c, "The type of a list element "
                                              \o "does not match", ctx)
                  /\ mods' = [mods EXCEPT ![c] = module]
                  /\ UNCHANGED <<lists, log>>
                  /\ stack' = SetTop([Top EXCEPT !.pc = "computed"])
    /\ UNCHANGED <<pipeline, target>>

\* outputs[nameOutput].append(module.get_output(nameOutput)) for every
\* output port of the copy, whose output ports are outs
Gather(outputs, outs) ==
    [o \in (DOMAIN outputs) \cup (DOMAIN outs) |->
       IF o \in DOMAIN outs
       THEN Append(IF o \in DOMAIN outputs THEN outputs[o] ELSE <<>>, outs[o])
       ELSE outputs[o]]

\* BatchCollect that treats a suspension like any other exception
BatchCollect_failFast(r) ==
    IF IsException(r) THEN "propagate" ELSE "gather"

\* BatchCollect that goes on after an exception that is no suspension
BatchCollect_keepGoing(r) ==
    IF r.type = "ModuleSuspended" THEN "suspended" ELSE "gather"

\* the except clause of the loop body: what becomes of the result of
\* module.update()
BatchCollect(r) ==
    IF r.type = "ModuleSuspended" THEN "suspended"
    ELSE IF IsException(r) THEN "propagate"
    ELSE "gather"

\* module.update() came back into the loop: a suspension is tagged with the
\* iteration and kept, and the loop goes on; any other exception leaves
\* compute_all(); after a normal return the outputs of the copy are gathered
BatchReturn ==
    /\ stack # <<>>
    /\ Top.pc = "all_call"
    /\ LET b == BatchCollect(ret)
       IN CASE b = "suspended" ->
                 /\ ret' = NoRet
                 /\ stack' = SetTop([Top EXCEPT
                                       !.pc = "all_loop",
                                       !.i = @ + 1,
                                       !.all_suspended =
                                          Append(@, Tagged(ret, Top.i))])
            [] b = "propagate" ->
                 /\ ret' = ret
                 /\ stack' = SetTop([Top EXCEPT !.pc = "computed"])
            [] OTHER ->
                 /\ ret' = NoRet
                 /\ stack' = SetTop([Top EXCEPT
                                       !.pc = "all_loop",
                                       !.i = @ + 1,
                                       !.outputs =
                                          Gather(@, mods[CloneOf(Top.m)]
                                                       .outputPorts)])
    /\ UNCHANGED <<mods, lists, pipeline, target, log>>

\* ModuleSuspended(self, "function module suspended in %d/%d iterations" %
\* (len(suspended), num_inputs), children=suspended); args are the numbers
\* of the message
BatchSuspended(m, suspended, num_inputs) ==
    [type |-> "ModuleSuspended", module |-> m,
     msg |-> "function module suspended in %d/%d iterations",
     args |-> <<Len(suspended), num_inputs>>,
     children |-> suspended, loop_iteration |-> None]

\* Module.set_output for a list: the list is wrapped in an Iterator when the
\* port or the module is at a list depth above 0
set_output_list(mod, port_name, value) ==
    [mod EXCEPT !.outputPorts[port_name] =
        IF PortSpecDepth + mod.list_depth # 0
        THEN Iterator(value, PortSpecDepth + mod.list_depth)
        ELSE List(value)]

\* for nameOutput in outputs: self.set_output(nameOutput, outputs[...]), from
\* output number j of names on
RECURSIVE SetOutputs(_, _, _, _)
SetOutputs(mod, outputs, names, j) ==
    IF j > Len(names) THEN mod
    ELSE SetOutputs(set_output_list(mod, names[j], outputs[names[j]]),
                    outputs, names, j + 1)

\* the names of the output ports, in one fixed order
OutputOrder == <<"self", "value">>

\* the keys of dict outputs, in that order
OutputNames(outputs) ==
    SelectSeq(OutputOrder, LAMBDA o : o \in DOMAIN outputs)

\* the loop is over: the suspensions that were kept are raised as one, or
\* every output port that an iteration produced gets the list of its values
BatchEnd ==
    /\ stack # <<>>
    /\ Top.pc = "all_loop"
    /\ Top.i >= Len(Top.elements)
    /\ LET m == Top.m
       IN IF Top.all_suspended # <<>>
          THEN /\ ret' = BatchSuspended(m, Top.all_suspended,
                                        Len(Top.elements))
               /\ UNCHANGED mods
          ELSE /\ ret' = Computed(m)
               /\ mods' = [mods EXCEPT
                             ![m] = SetOutputs(@, Top.outputs,
                                               OutputNames(Top.outputs), 1)]
    /\ stack' = SetTop([Top EXCEPT !.pc = "computed"])
    /\ UNCHANGED <<lists, pipeline, target, log>>

(* ------------------------------ streaming ------------------------------ *)
\* the depth of an Iterator that is made without a depth
DefaultDepth == 1

\* the generator object a streaming method makes.  kind: the method; pos:
\* "start" before the first next(), "yielded" at a yield True, "ended" at a
\* yield None, "dead" once an exception has left it; module: the driver copy;
\* ports, streams: the input ports it pulls and their Iterators; i,
\* suspended, inputs, num_inputs: the locals of the method; left: the values
\* the generator of a source has yet to yield
Generator(kind, module, ports, streams, num_inputs, left) ==
    [kind |-> kind, pos |-> "start", module |-> module,
     ports |-> ports, streams |-> streams, num_inputs |-> num_inputs,
     i |-> 0, suspended |-> <<>>,
     inputs |-> [j \in 1..Len(ports) |-> <<>>],
     left |-> left]

\* the values a source streams: n values, none of them None
StreamValues(n) == [j \in 1..n |-> IntOf(j)]

\* compute() of a module without inputs calls set_streaming_output('value',
\* generator, size): the module is copied, the copy at list depth -1, and the
\* output port holds an Iterator over the generator
SetStreamingOutput ==
    /\ stack # <<>>
    /\ Top.pc = "compute"
    /\ ~mods[Top.m].is_breakpoint
    /\ Engine(Top.m) = "compute"
    /\ Top.m \in Modules
    /\ DOMAIN pipeline[Top.m].inputPorts = {}
    /\ \E n \in 0..MaxElems :
          LET m == Top.m
              c == CloneOf(m)
              module == [Copy(mods[m], c) EXCEPT !.list_depth = -1]
              it == StreamIterator(DefaultDepth, n, c, m, "value")
          IN mods' = Put([mods EXCEPT
                            ![m] = [set_output(@, "value", it) EXCEPT
                                      !.generator =
                                         Generator("source", c, <<>>, <<>>,
                                                   n, StreamValues(n))]],
                         c, module)
    /\ ret' = Computed(Top.m)
    /\ stack' = SetTop([Top EXCEPT !.pc = "computed"])
    /\ UNCHANGED <<lists, pipeline, target, log>>

\* self.iterated_ports[port][1]: the value of the last connector of the
\* port that is too deep for it
iterated_raw(m, port) ==
    LET conList == lists[mods[m].inputPorts[port]]
        over == SelectSeq(conList,
                          LAMBDA c : depth(c) - PortSpecDepth > 0)
        last == over[Len(over)]
    IN get_output(last.obj, last.port)

\* for name_output in self.outputPorts: self.set_output(name_output,
\* Iterator(depth=self.list_depth, size=num_inputs, module=module,
\* generator=_generator, port=name_output))
SetIterators(mod, num_inputs, c, m) ==
    [mod EXCEPT !.outputPorts =
        [o \in DOMAIN @ |->
           StreamIterator(mod.list_depth, num_inputs, c, m, o)]]

\* the streaming method compute_streaming() of module m runs: for a module
\* at list depth 0 compute_accumulate() when a streamed input has a depth,
\* compute_after_streaming() when none has; for any other its own body
StreamingMethod(m) ==
    IF mods[m].list_depth = 0
    THEN (IF \E p \in DOMAIN streamed_ports(m) :
                streamed_ports(m)[p].list_depth # 0
          THEN "accumulate" ELSE "after_streaming")
    ELSE "streaming"

\* ModuleError(self, 'Cannot use cartesian product while streaming!')
CartesianError(m, ctx) ==
    ModuleError(m, "Cannot use cartesian product while streaming!", ctx)

\* update() takes the branch of the streamed ports and compute_streaming()
\* runs: the module is copied, a generator is made and the output ports get
\* Iterators over it; nothing is pulled
StreamBegin ==
    /\ stack # <<>>
    /\ Top.pc = "compute"
    /\ ~mods[Top.m].is_breakpoint
    /\ Engine(Top.m) = "compute_streaming"
    /\ LET m == Top.m
           c == CloneOf(m)
           kind == StreamingMethod(m)
           sp == streamed_ports(m)
           it == iterated_ports(m)
       IN IF kind # "streaming"
          THEN LET ports == PortsFrom(sp, 1)
                   num_inputs == sp[ports[1]].size
                   module == [Copy(mods[m], c) EXCEPT !.had_error = FALSE,
                                                      !.upToDate = FALSE,
                                                      !.computed = FALSE]
                   gen == Generator(kind, c, ports,
                                    [j \in 1..Len(ports) |-> sp[ports[j]]],
                                    num_inputs, <<>>)
               IN /\ mods' = Put([mods EXCEPT
                                    ![m] = [SetIterators(@, num_inputs, c, m)
                                              EXCEPT !.generator = gen]],
                                 c, module)
                  /\ ret' = Computed(m)
          ELSE IF loop_type(m) = "cartesian"
          THEN /\ \E ctx \in BOOLEAN : ret' = CartesianError(m, ctx)
               /\ UNCHANGED mods
          ELSE IF DOMAIN it = {}
          THEN /\ ret' = OtherException(m, "IndexError")
               /\ UNCHANGED mods
          ELSE LET ports == batch_ports(m)
                   num_inputs == iterated_raw(m, PortsFrom(it, 1)[1]).size
                   module == [Copy(mods[m], c) EXCEPT !.list_depth = @ - 1]
                   gen == Generator(kind, c, ports,
                                    [j \in 1..Len(ports) |->
                                       iterated_raw(m, ports[j])],
                                    num_inputs, <<>>)
               IN /\ mods' = Put([mods EXCEPT
                                    ![m] = [SetIterators(@, num_inputs, c, m)
                                              EXCEPT !.generator = gen]],
                                 c, module)
                  /\ ret' = Computed(m)
    /\ stack' = SetTop([Top EXCEPT !.pc = "computed"])
    /\ UNCHANGED <<lists, pipeline, target, log>>

\* a frame of the generator of module g that runs to its next yield
GenFrame(g) == [Frame(g) EXCEPT !.pc = "next"]

\* the consumer outside calls next() of the Iterator on the output port of
\* its target: the generator is resumed; the consumer stops once the
\* generator has yielded None or raised
Pull ==
    /\ stack = <<>>
    /\ target # 0
    /\ IsStream(get_output(target, "value"))
    /\ mods[get_output(target, "value").generator].generator.pos
          \in {"start", "yielded"}
    /\ stack' = <<GenFrame(get_output(target, "value").generator)>>
    /\ ret' = NoRet
    /\ UNCHANGED <<mods, lists, pipeline, target, log>>

\* _generator() of set_streaming_output up to its next yield: the next value
\* is put on the output port of the copy, None when there is none
SourceNext ==
    /\ stack # <<>>
    /\ Top.pc = "next"
    /\ mods[Top.m].generator.kind = "source"
    /\ LET g == Top.m
           gen == mods[g].generator
           c == gen.module
       IN IF gen.left = <<>>
          THEN /\ mods' = [mods EXCEPT
                             ![c] = set_output(@, "value", None),
                             ![g].generator.pos = "ended"]
               /\ ret' = Yielded(g, None)
          ELSE /\ mods' = [mods EXCEPT
                             ![c] = set_output(@, "value", Head(gen.left)),
                             ![g].generator.pos = "yielded",
                             ![g].generator.left = Tail(@)]
               /\ ret' = Yielded(g, True)
    /\ stack' = Pop
    /\ UNCHANGED <<lists, pipeline, target, log>>

\* elements = [... .next() for port in ports]: next() of the Iterator of
\* port number k resumes the generator that feeds it
GenPull ==
    /\ stack # <<>>
    /\ Top.pc = "next"
    /\ mods[Top.m].generator.kind # "source"
    /\ Top.k <= Len(mods[Top.m].generator.ports)
    /\ stack' = Append(SetTop([Top EXCEPT !.pc = "pulling"]),
                       GenFrame(mods[Top.m].generator.streams[Top.k]
                                   .generator))
    /\ ret' = NoRet
    /\ UNCHANGED <<mods, lists, pipeline, target, log>>

\* next() returns self.module.get_output(self.port) once the generator has
\* yielded; an exception of the generator leaves the pulling generator too
GenPulled ==
    /\ stack # <<>>
    /\ Top.pc = "pulling"
    /\ LET g == Top.m
           it == mods[g].generator.streams[Top.k]
       IN IF IsException(ret)
          THEN /\ mods' = [mods EXCEPT ![g].generator.pos = "dead"]
               /\ stack' = Pop
               /\ ret' = ret
          ELSE /\ stack' = SetTop([Top EXCEPT
                                     !.pc = "next",
                                     !.k = @ + 1,
                                     !.elements =
                                        Append(@, get_output(it.module,
                                                             it.port))])
               /\ ret' = NoRet
               /\ UNCHANGED mods
    /\ UNCHANGED <<lists, pipeline, target, log>>

\* for name_output in module.outputPorts: module.set_output(name_output,
\* None)
SetNone(mod) == [mod EXCEPT !.outputPorts = [o \in DOMAIN @ |-> None]]

\* ModuleSuspended(self, "function module suspended after streaming %d/%d
\* iterations" % (len(suspended), num_inputs), children=suspended)
StreamSuspended(m, suspended, num_inputs) ==
    [type |-> "ModuleSuspended", module |-> m,
     msg |-> "function module suspended after streaming %d/%d iterations",
     args |-> <<Len(suspended), num_inputs>>,
     children |-> suspended, loop_iteration |-> None]

\* StreamCollect that treats a suspension like any other exception
StreamCollect_failFast(r) ==
    IF IsException(r) THEN "propagate" ELSE "yield"

\* the except clause of the generator of compute_streaming(): what becomes
\* of the result r of module.compute()
StreamCollect(r) ==
    IF r.type = "ModuleSuspended" THEN "suspended"
    ELSE IF IsException(r) THEN "propagate"
    ELSE "yield"

\* EndOfStream that sees no end
EndOfStream_never(elements) == FALSE

\* if None in elements
EndOfStream(elements) == None \in Range(elements)

\* the generator of compute_streaming() once it has pulled an element from
\* each of its ports.  With None among them every output port of the copy
\* is set to None and the suspensions that were kept are raised as one, or
\* None is yielded.  Otherwise the error flag of the copy is cleared, the
\* elements are type-checked in the first step, the flags of the copy are
\* reset, the elements are put on its ports and its compute() runs: a
\* suspension is tagged with the step and kept, and True is yielded
StreamNext ==
    /\ stack # <<>>
    /\ Top.pc = "next"
    /\ mods[Top.m].generator.kind = "streaming"
    /\ Top.k > Len(mods[Top.m].generator.ports)
    /\ LET g == Top.m
           gen == mods[g].generator
           c == gen.module
           module == ResetClone(mods[c])
           reset == [module EXCEPT !.upToDate = FALSE, !.computed = FALSE]
           st == setInputValues(
                     [ip |-> reset.inputPorts, h |-> lists,
                      ms |-> [mods EXCEPT ![c] = reset]],
                     c, gen.ports, Top.elements, 1, gen.i)
       IN IF EndOfStream(Top.elements)
          THEN /\ IF gen.suspended # <<>>
                  THEN /\ ret' = StreamSuspended(g, gen.suspended,
                                                 gen.num_inputs)
                       /\ mods' = [mods EXCEPT
                                     ![c] = SetNone(@),
                                     ![g].generator.pos = "dead"]
                  ELSE /\ ret' = Yielded(g, None)
                       /\ mods' = [mods EXCEPT
                                     ![c] = SetNone(@),
                                     ![g].generator.pos = "ended"]
               /\ UNCHANGED <<lists, log>>
          ELSE \/ /\ gen.i = 0
                  /\ \E ctx \in BOOLEAN :
                        ret' = ModuleError(c, "The type of a list element "
                                              \o "does not match", ctx)
                  /\ mods' = [mods EXCEPT ![c] = module,
                                          ![g].generator.pos = "dead"]
                  /\ UNCHANGED <<lists, log>>
               \/ \E r \in ComputeResults(c) :
                     LET b == StreamCollect(r)
                         ms == [st.ms EXCEPT ![c].inputPorts = st.ip]
                     IN /\ lists' = st.h
                        /\ log' = [log EXCEPT !.begin_iteration[c] = @ + 1]
                        /\ CASE b = "suspended" ->
                                  /\ ret' = Yielded(g, True)
                                  /\ mods' = [ms EXCEPT
                                       ![g].generator.pos = "yielded",
                                       ![g].generator.i = @ + 1,
                                       ![g].generator.suspended =
                                          Append(@, Tagged(r, gen.i))]
                             [] b = "propagate" ->
                                  /\ ret' = r
                                  /\ mods' = [ms EXCEPT
                                       ![g].generator.pos = "dead"]
                             [] OTHER ->
                                  /\ ret' = Yielded(g, True)
                                  /\ mods' = [ms EXCEPT
                                       ![c] = set_output(@, "value",
                                                         r.value),
                                       ![g].generator.pos = "yielded",
                                       ![g].generator.i = @ + 1]
    /\ stack' = Pop
    /\ UNCHANGED <<pipeline, target>>

\* UpstreamDone that holds of any elements
UpstreamDone_always(elements) == TRUE

\* if None not in elements
UpstreamDone(elements) == None \notin Range(elements)

\* the step of a generator that updates the copy: the values are
\* type-checked (checked: there is a value to check) and put on the ports of
\* the copy, and module.update() is called
GenUpdate(g, values, checked) ==
    LET gen == mods[g].generator
        c == gen.module
        st == setInputValues(
                  [ip |-> mods[c].inputPorts, h |-> lists, ms |-> mods],
                  c, gen.ports, values, 1, gen.i)
    IN \/ /\ checked
          /\ \E ctx \in BOOLEAN :
                ret' = ModuleError(c, "The type of a list element "
                                      \o "does not match", ctx)
          /\ mods' = [mods EXCEPT ![g].generator.pos = "dead"]
          /\ stack' = Pop
          /\ UNCHANGED lists
       \/ /\ mods' = [st.ms EXCEPT ![c].inputPorts = st.ip]
          /\ lists' = st.h
          /\ stack' = Append(SetTop([Top EXCEPT !.pc = "updating"]),
                             Frame(c))
          /\ ret' = NoRet

\* the step of a generator that waits for the end: every output port of the
\* copy is set to None and True is yielded
GenWait(g, inputs) ==
    /\ mods' = [mods EXCEPT
                  ![mods[g].generator.module] = SetNone(@),
                  ![g].generator.pos = "yielded",
                  ![g].generator.i = @ + 1,
                  ![g].generator.inputs = inputs]
    /\ ret' = Yielded(g, True)
    /\ stack' = Pop
    /\ UNCHANGED lists

\* the generator of compute_accumulate() once it has pulled an element from
\* each of its ports: with None among them the copy is updated with the
\* lists of the elements that were kept, otherwise each element is kept
AccumulateNext ==
    /\ stack # <<>>
    /\ Top.pc = "next"
    /\ mods[Top.m].generator.kind = "accumulate"
    /\ Top.k > Len(mods[Top.m].generator.ports)
    /\ LET gen == mods[Top.m].generator
       IN IF EndOfStream(Top.elements)
          THEN GenUpdate(Top.m,
                         [j \in 1..Len(gen.ports) |-> List(gen.inputs[j])],
                         \A j \in 1..Len(gen.ports) : gen.inputs[j] # <<>>)
          ELSE GenWait(Top.m, [j \in 1..Len(gen.ports) |->
                                 Append(gen.inputs[j], Top.elements[j])])
    /\ UNCHANGED <<pipeline, target, log>>

\* the generator of compute_after_streaming() once it has pulled an element
\* from each of its ports: without None among them the copy is updated with
\* the elements, otherwise the generator waits
AfterNext ==
    /\ stack # <<>>
    /\ Top.pc = "next"
    /\ mods[Top.m].generator.kind = "after_streaming"
    /\ Top.k > Len(mods[Top.m].generator.ports)
    /\ IF UpstreamDone(Top.elements)
       THEN GenUpdate(Top.m, Top.elements, TRUE)
       ELSE GenWait(Top.m, mods[Top.m].generator.inputs)
    /\ UNCHANGED <<pipeline, target, log>>

\* module.update() came back into the generator: an exception leaves the
\* generator; after a normal return None is yielded (no suspension is ever
\* kept in the list suspended of these two methods)
GenUpdated ==
    /\ stack # <<>>
    /\ Top.pc = "updating"
    /\ IF IsException(ret)
       THEN /\ mods' = [mods EXCEPT ![Top.m].generator.pos = "dead"]
            /\ ret' = ret
       ELSE /\ mods' = [mods EXCEPT ![Top.m].generator.pos = "ended"]
            /\ ret' = Yielded(Top.m, None)
    /\ stack' = Pop
    /\ UNCHANGED <<lists, pipeline, target, log>>

(* --------------------------- specifications ---------------------------- *)
Next ==
    \/ \E m \in Modules : Call(m)
    \/ UpdateEnter
    \/ UpstreamCall
    \/ UpstreamReturn
    \/ UpstreamEnd
    \/ CacheCheck
    \/ Compute
    \/ AfterCompute
    \/ Finish

\* the execution of a pipeline without loops
Spec == Init /\ [][Next]_vars

NextWhile ==
    \/ Next
    \/ WhileBegin
    \/ WhileIterate
    \/ WhileReturn
    \/ WhileEnd

\* the execution of a pipeline with a while loop
SpecWhile == InitWhile /\ [][NextWhile]_vars

(* ------------------- a while loop with several inputs ------------------ *)
\* the wirings of a while loop that is the only module with input ports:
\* up to MaxConn connectors in all, on one port or on several
CloneWirings ==
    {w \in Wirings(LoopModule) : NumConnectors(w) \in 1..MaxConn}

\* a pipeline whose module LoopModule is annotated as a while loop and has
\* one connector or more on its ports
InitClone ==
    \E w \in CloneWirings, a \in WhileConfigs :
        InitWith([m \in Modules |->
                    IF m = LoopModule THEN w ELSE [p \in {} |-> <<>>]],
                 [m \in Modules |->
                    IF m = LoopModule THEN a ELSE NoAnnotations])

\* the execution of a while loop whose ports can have several connectors
SpecClone == InitClone /\ [][NextWhile]_vars

(* ------------------------ set-up before the run ------------------------ *)
\* the module that is set up before the run: the last one, which can have
\* sources
SetupModule == NumModules

\* Constant.setValue(v) on module m, before the pipeline runs: the output
\* 'value' is set and the module is up to date
setValue(m) ==
    /\ stack = <<>>
    /\ target = 0
    /\ m = SetupModule
    /\ ~mods[m].upToDate
    /\ ~mods[m].is_breakpoint
    /\ mods' = [mods EXCEPT
                  ![m] = [set_output(@, "value", Val) EXCEPT
                             !.upToDate = TRUE]]
    /\ UNCHANGED <<lists, pipeline, stack, ret, target, log>>

\* module m is made a breakpoint before the pipeline runs
SetBreakpoint(m) ==
    /\ stack = <<>>
    /\ target = 0
    /\ m = SetupModule
    /\ ~mods[m].upToDate
    /\ ~mods[m].is_breakpoint
    /\ mods' = [mods EXCEPT ![m].is_breakpoint = TRUE]
    /\ UNCHANGED <<lists, pipeline, stack, ret, target, log>>

\* the try block of update() on a breakpoint
Breakpoint ==
    /\ stack # <<>>
    /\ Top.pc = "compute"
    /\ mods[Top.m].is_breakpoint
    /\ ret' = ModuleBreakpoint(Top.m)
    /\ stack' = SetTop([Top EXCEPT !.pc = "computed"])
    /\ UNCHANGED <<mods, lists, pipeline, target, log>>

NextSetup ==
    \/ Next
    \/ \E m \in Modules : setValue(m)
    \/ \E m \in Modules : SetBreakpoint(m)
    \/ Breakpoint

\* the execution of a pipeline one module of which was given its value, or
\* made a breakpoint, beforehand
SpecSetup == InitSetup /\ [][NextSetup]_vars

(* --------------------------- batch iteration --------------------------- *)
\* the module that iterates over lists: the last one, fed by all others
BatchModule == NumModules

\* what source module s holds on its output before the run: a value, or a
\* list of up to MaxElems elements that no other source holds
SourceValues(s) ==
    {Val} \cup {Iterator([j \in 1..n |-> IntOf(10 * s + j)], 1) :
                  n \in 0..MaxElems}

\* the source modules are interchangeable: in the connectors conns, taken in
\* port order, source s comes first only after every source before it
FirstUseOrder(conns) ==
    \A i \in 1..Len(conns) : \A s \in 1..(conns[i].obj - 1) :
        \E j \in 1..(i - 1) : conns[j].obj = s

\* the input ports of the batch module
BatchWirings ==
    {w \in Wirings(BatchModule) :
        /\ NumConnectors(w) <= MaxBatchEdges
        /\ FirstUseOrder(ConnsOf(w, PortsFrom(w, 1)))}

\* the __loop_type__ annotation: none, or one with the value t[1]
LoopTypes == {<<>>, <<"pairwise">>, <<"cartesian">>, <<"chained">>}

\* the elements port p of wiring w carries when the sources hold vals
RECURSIVE PortList(_, _)
PortList(conList, vals) ==
    IF conList = <<>> THEN <<>>
    ELSE (IF vals[Head(conList).obj].k = "Iterator"
          THEN vals[Head(conList).obj].values
          ELSE <<vals[Head(conList).obj]>>)
         \o PortList(Tail(conList), vals)

\* the ports of wiring w that carry a list when the sources hold vals
ListPorts(w, vals) ==
    SelectSeq(PortsFrom(w, 1),
              LAMBDA p : \E i \in 1..Len(w[p]) :
                            vals[w[p][i].obj].k = "Iterator")

\* the number of tuples a batch iteration of type t over lists ls goes
\* through
RECURSIVE NumTuples(_, _)
NumTuples(ls, t) ==
    IF t = <<"cartesian">>
    THEN (IF ls = <<>> THEN 1 ELSE Len(Head(ls)) * NumTuples(Tail(ls), t))
    ELSE IF ls = <<>> THEN 0 ELSE MinLen(ls)

\* a pipeline whose sources hold their values (Constant.setValue) and whose
\* last module has the list depth of its deepest input
InitBatch ==
    \E w \in BatchWirings,
       vals \in [1..(NumModules - 1) -> UNION {SourceValues(s) :
                                                s \in 1..(NumModules - 1)}],
       t \in LoopTypes :
        /\ \A s \in 1..(NumModules - 1) :
              /\ vals[s] \in SourceValues(s)
              /\ (\A p \in DOMAIN w : \A i \in 1..Len(w[p]) : w[p][i].obj # s)
                    => vals[s] = Val
        /\ LET lp == ListPorts(w, vals)
           IN NumTuples([j \in 1..Len(lp) |-> PortList(w[lp[j]], vals)], t)
                 <= MaxBatch
        /\ pipeline = [m \in Modules |->
                         [inputPorts |-> IF m = BatchModule THEN w
                                         ELSE [p \in {} |-> <<>>],
                          annotations |->
                             IF m = BatchModule /\ t # <<>>
                             THEN [key \in {LOOP_KEY} |-> t[1]]
                             ELSE NoAnnotations]]
        /\ mods = [m \in Modules |->
                     IF m = BatchModule
                     THEN [NewModule(m, [p \in DOMAIN w |-> Ref(m, p)])
                             EXCEPT !.list_depth =
                                IF ListPorts(w, vals) # <<>> THEN 1 ELSE 0]
                     ELSE [set_output(NewModule(m, [p \in {} |-> Ref(m, p)]),
                                      "value", vals[m])
                             EXCEPT !.upToDate = TRUE]]
        /\ lists = [r \in {Ref(m, p) : m \in AllIds, p \in PortNames} |->
                      IF r[1] = BatchModule /\ r[2] \in DOMAIN w
                      THEN w[r[2]] ELSE <<>>]
        /\ stack = <<>>
        /\ ret = NoRet
        /\ target = 0
        /\ log = [begin_compute |-> [m \in AllIds |-> 0],
                  begin_iteration |-> [m \in AllIds |-> 0]]

NextBatch ==
    \/ Next
    \/ BatchBegin
    \/ BatchIterate
    \/ BatchReturn
    \/ BatchEnd

\* the execution of a pipeline whose last module iterates over lists
SpecBatch == InitBatch /\ [][NextBatch]_vars

(* ------------------------- streaming pipelines ------------------------- *)
\* the input ports module m of a streaming pipeline can have: one connector
\* a port, port p before port q
StreamWirings(m) ==
    IF m = 1 THEN {[p \in {} |-> <<>>]}
    ELSE UNION {
           {[p \in D |-> <<ModuleConnector(f[p], "value", 1)>>] :
              f \in [D -> 1..(m - 1)]} :
           D \in {{}, {"p"}, {"p", "q"}}}

\* the output of no module feeds two connectors
SingleConsumer(ws) ==
    \A s \in Modules :
        Cardinality({<<m, p>> \in Modules \X PortNames :
                        /\ p \in DOMAIN ws[m]
                        /\ ws[m][p][1].obj = s}) <= 1

\* the wirings of modules 1..m of a streaming pipeline with at most e
\* connectors in all
RECURSIVE StreamPipelinesUpTo(_, _)
StreamPipelinesUpTo(m, e) ==
    IF m = 0 THEN {<<>>}
    ELSE UNION {{Append(ws, w) :
                   w \in {x \in StreamWirings(m) :
                            NumConnectors(x) + TotalConnectors(ws) <= e}} :
                  ws \in StreamPipelinesUpTo(m - 1, e)}

StreamPipelines ==
    {ws \in StreamPipelinesUpTo(NumModules, MaxStreamEdges) :
        SingleConsumer(ws)}

\* a pipeline whose modules with inputs are at list depth 0 or 1; module a,
\* if there is one, carries the annotation __loop_type__ = 'cartesian'
InitStream ==
    \E ws \in StreamPipelines,
       ld \in [Modules -> 0..1],
       a \in 0..NumModules :
        /\ \A m \in Modules :
              DOMAIN ws[m] = {} => ld[m] = 0 /\ a # m
        /\ pipeline = [m \in Modules |->
                         [inputPorts |-> ws[m],
                          annotations |->
                             IF a = m
                             THEN [key \in {LOOP_KEY} |-> "cartesian"]
                             ELSE NoAnnotations]]
        /\ mods = [m \in Modules |->
                     [NewModule(m, [p \in DOMAIN ws[m] |-> Ref(m, p)])
                        EXCEPT !.list_depth = ld[m]]]
        /\ lists = [r \in {Ref(m, p) : m \in AllIds, p \in PortNames} |->
                      IF r[1] \in Modules /\ r[2] \in DOMAIN ws[r[1]]
                      THEN ws[r[1]][r[2]] ELSE <<>>]
        /\ stack = <<>>
        /\ ret = NoRet
        /\ target = 0
        /\ log = [begin_compute |-> [m \in AllIds |-> 0],
                  begin_iteration |-> [m \in AllIds |-> 0]]

NextStream ==
    \/ Next
    \/ SetStreamingOutput
    \/ StreamBegin
    \/ Pull
    \/ SourceNext
    \/ GenPull
    \/ GenPulled
    \/ StreamNext
    \/ AccumulateNext
    \/ AfterNext
    \/ GenUpdated

\* the execution of a pipeline whose sources stream their values
SpecStream == InitStream /\ [][NextStream]_vars

(* ------------------- a module every engine can run for ----------------- *)
\* the module whose engine is chosen: the last one
ModeModule == NumModules

\* what a source holds before the run: a value, a list of depth 1 with no
\* element or one, or nothing yet (it computes in the run, and can stream)
SourceKinds == {"value", "empty", "list", "fresh"}

\* the annotations of the module: none, or those of a while loop of up to
\* MaxIter iterations, with or without a condition
ModeAnnotations ==
    {NoAnnotations,
     Annotations(<<MaxIter>>, <<>>, <<>>, <<>>),
     Annotations(<<MaxIter>>, <<"value">>, <<>>, <<>>)}

\* a pipeline whose last module has up to one connector on each port, from
\* sources that hold a value or a list or compute in the run, and is or is
\* not annotated as a while loop; the lists on its ports are all held
\* before the run or all computed in the run
InitMode ==
    \E w \in StreamWirings(ModeModule),
       kind \in [1..(NumModules - 1) -> SourceKinds],
       ld \in 0..1,
       a \in ModeAnnotations :
        /\ FirstUseOrder(ConnsOf(w, PortsFrom(w, 1)))
        /\ \A s \in 1..(NumModules - 1) :
              (\A p \in DOMAIN w : w[p][1].obj # s) => kind[s] = "value"
        /\ (\A p \in DOMAIN w : kind[w[p][1].obj] = "value") => ld = 0
        /\ \/ \A p \in DOMAIN w : kind[w[p][1].obj] # "fresh"
           \/ \A p \in DOMAIN w : kind[w[p][1].obj] \in {"value", "fresh"}
        /\ pipeline = [m \in Modules |->
                         [inputPorts |-> IF m = ModeModule THEN w
                                         ELSE [p \in {} |-> <<>>],
                          annotations |-> IF m = ModeModule THEN a
                                          ELSE NoAnnotations]]
        /\ mods = [m \in Modules |->
                     IF m = ModeModule
                     THEN [NewModule(m, [p \in DOMAIN w |-> Ref(m, p)])
                             EXCEPT !.list_depth = ld]
                     ELSE IF kind[m] = "fresh"
                     THEN NewModule(m, [p \in {} |-> Ref(m, p)])
                     ELSE [set_output(
                              NewModule(m, [p \in {} |-> Ref(m, p)]),
                              "value",
                              CASE kind[m] = "value" -> Val
                                [] kind[m] = "empty" -> Iterator(<<>>, 1)
                                [] OTHER ->
                                     Iterator(<<IntOf(10 * m + 1)>>, 1))
                             EXCEPT !.upToDate = TRUE]]
        /\ lists = [r \in {Ref(m, p) : m \in AllIds, p \in PortNames} |->
                      IF r[1] = ModeModule /\ r[2] \in DOMAIN w
                      THEN w[r[2]] ELSE <<>>]
        /\ stack = <<>>
        /\ ret = NoRet
        /\ target = 0
        /\ log = [begin_compute |-> [m \in AllIds |-> 0],
                  begin_iteration |-> [m \in AllIds |-> 0]]

\* every engine; compute_after_streaming() needs a stream of depth 0, which
\* no source puts out
NextMode ==
    \/ Next
    \/ SetStreamingOutput
    \/ StreamBegin
    \/ Pull
    \/ SourceNext
    \/ GenPull
    \/ GenPulled
    \/ StreamNext
    \/ AccumulateNext
    \/ GenUpdated
    \/ WhileBegin
    \/ WhileIterate
    \/ WhileReturn
    \/ WhileEnd
    \/ BatchBegin
    \/ BatchIterate
    \/ BatchReturn
    \/ BatchEnd

\* the execution of a pipeline whose last module can run under every engine
SpecMode == InitMode /\ [][NextMode]_vars

(* ------------------------ ModuleConnector.__call__ --------------------- *)
\* ModuleConnector(obj, port, spec, typecheck): spec is given by the names
\* of its descriptors, typecheck is the list of booleans
TypedConnector(obj, port, id, spec, typecheck) ==
    [obj |-> obj, port |-> port, id |-> id,
     spec |-> spec, typecheck |-> typecheck]

\* what a call returns: the value
Value(v) == [type |-> "value", value |-> v]

\* Iterator.all() of a materialized Iterator: the list of its values
all(it) == List(it.values)

\* hasattr(mod, 'validate'): the constant types have a validate, Module has
\* none
has_validate(name) == name \in {"Integer", "String", "List"}

\* mod.validate(value): isinstance(x, (int, long)) for Integer,
\* isinstance(x, str) for String, isinstance(x, ListType) for List
validate(name, value) ==
    CASE name = "Integer" -> value.k = "int"
      [] name = "String" -> value.k = "str"
      [] name = "List" -> value.k = "list"
      [] OTHER -> TRUE

\* whether a for loop can run over value
Iterable(value) == value.k \in {"list", "tuple", "str"}

\* the items a for loop over value goes through; those of a str are its
\* characters, each a str
ItemsOf(value) ==
    IF value.k = "str"
    THEN [j \in 1..Len(value.chars) |-> Str(<<value.chars[j]>>)]
    ELSE value.values

\* the number of %s in the format string of the error of a list that is
\* not deep enough
DepthFormatSpecifiers == 4

\* raise ModuleError(self.obj, "List on port %s has wrong depth %s,
\* expected %s.%s" % (self.port, i, depth)): the % operator raises TypeError
\* when the arguments are fewer than the specifiers
DepthError(obj, args) ==
    IF Len(args) # DepthFormatSpecifiers
    THEN OtherException(obj, "TypeError")
    ELSE [type |-> "ModuleError", module |-> obj,
          msg |-> "List on port %s has wrong depth %s, expected %s.%s",
          args |-> args]

\* for i in xrange(depth): value = [item for sublist in value for item in
\* sublist], from round i on; ok is false when round i raised TypeError
RECURSIVE FlattenRounds(_, _, _)
FlattenRounds(value, i, n_depth) ==
    IF i >= n_depth THEN [ok |-> TRUE, value |-> value]
    ELSE IF /\ Iterable(value)
            /\ \A j \in 1..Len(ItemsOf(value)) : Iterable(ItemsOf(value)[j])
    THEN FlattenRounds(
             List(Flatten([j \in 1..Len(ItemsOf(value)) |->
                             ItemsOf(ItemsOf(value)[j])])),
             i + 1, n_depth)
    ELSE [ok |-> FALSE, i |-> i]

\* the error of a value the type of the port rejects
TypeMismatch(obj, port, name) ==
    [type |-> "ModuleError", module |-> obj,
     msg |-> "Type passed on Variant port %s does not match destination "
             \o "type %s",
     args |-> <<port, name>>]

\* the test before validate: only a value that is true is validated
Validated(value) == Truthy(value)

\* the branch of one descriptor: the value is flattened as many times as
\* it is deep, its first element is taken, and the type validates it
CallSingle(connector, result, n_depth) ==
    LET name == connector.spec[1]
        flat == FlattenRounds(result, 0, n_depth)
    IN IF ~connector.typecheck[1] THEN Value(result)
       ELSE IF ~flat.ok
       THEN DepthError(connector.obj, <<connector.port, flat.i, n_depth>>)
       ELSE LET value == IF n_depth = 0 THEN flat.value
                         ELSE IF Truthy(flat.value)
                         THEN ItemsOf(flat.value)[1] ELSE None
            IN IF /\ has_validate(name)
                  /\ Validated(value)
                  /\ ~validate(name, value)
               THEN TypeMismatch(connector.obj, connector.port, name)
               ELSE Value(result)

\* the positions of the tuple that are checked: all of them, or those of
\* the list typecheck
Mask(connector) ==
    IF Len(connector.typecheck) = 1
    THEN [i \in 1..Len(connector.spec) |-> connector.typecheck[1]]
    ELSE connector.typecheck

\* every position of the tuple is validated
Checks_all(typecheck, i) == TRUE

\* whether position i of the tuple is validated
Checks(typecheck, i) == typecheck[i]

\* the error of an element of a tuple the type of its position rejects; the
\* positions count from 0
ElementMismatch(obj, i, port, name) ==
    [type |-> "ModuleError", module |-> obj,
     msg |-> "Element %d of tuple passed on Variant port %s does not match "
             \o "the destination type %s",
     args |-> <<i - 1, port, name>>]

\* the branch of several descriptors: the value has to be a tuple with one
\* element for each, and the elements at the checked positions are
\* validated in order
CallTuple(connector, result) ==
    LET descs == connector.spec
        typecheck == Mask(connector)
        bad == {i \in 1..Len(descs) :
                  /\ Checks(typecheck, i)
                  /\ has_validate(descs[i])
                  /\ ~validate(descs[i], result.values[i])}
    IN IF Len(connector.typecheck) = 1 /\ ~connector.typecheck[1]
       THEN Value(result)
       ELSE IF result.k # "tuple"
       THEN [type |-> "ModuleError", module |-> connector.obj,
             msg |-> "Type passed on Variant port %s is not a tuple",
             args |-> <<connector.port>>]
       ELSE IF Len(result.values) # Len(descs)
       THEN [type |-> "ModuleError", module |-> connector.obj,
             msg |-> "Object passed on Variant port %s does not have the "
                     \o "correct length (%d, expected %d)",
             args |-> <<connector.port, Len(result.values), Len(descs)>>]
       ELSE IF bad # {}
       THEN LET i == CHOOSE x \in bad : \A y \in bad : x <= y
            IN ElementMismatch(connector.obj, i, connector.port, descs[i])
       ELSE Value(result)

\* connector(): the value on the output port of the source, the list of an
\* Iterator, checked against the types the connector declares
connector_call(connector) ==
    LET raw == get_output(connector.obj, connector.port)
        result == IF raw.k = "Iterator" THEN all(raw) ELSE raw
    IN IF Len(connector.spec) = 1
       THEN CallSingle(connector, result, depth(connector))
       ELSE CallTuple(connector, result)

\* the module whose input is read, and the module that feeds it
Reader == 2
Feeder == 1

\* the elements of the values a source puts out
Atoms == {IntOf(1), Str(<<"a">>)}

\* the values the source puts out: values that are false, values of each
\* type, tuples of up to MaxTypes + 1 elements, and lists of depth 1 and 2,
\* some of them not as deep as they say
ResolveValues ==
    {None, Zero, IntOf(42), Str(<<>>), Str(<<"a", "b">>),
     List(<<>>), List(<<IntOf(1)>>)}
    \cup {Tuple(t) : t \in UNION {[1..n -> Atoms] : n \in 0..(MaxTypes + 1)}}
    \cup {Iterator(vs, 1) :
            vs \in {<<>>, <<IntOf(1)>>, <<Zero, IntOf(1)>>,
                    <<Str(<<"a">>)>>}}
    \cup {Iterator(vs, 2) :
            vs \in {<<>>, <<IntOf(1), IntOf(2)>>, <<List(<<>>)>>,
                    <<List(<<IntOf(1)>>), List(<<IntOf(2)>>)>>,
                    <<List(<<Str(<<>>)>>)>>,
                    <<List(<<IntOf(1)>>), IntOf(2)>>}}

\* the names of the types a connector declares
TypeNames == {"Integer", "String", "List", "Module"}

\* the connectors: one to MaxTypes types, and a list typecheck of one
\* boolean or of one for each type
TypedConnectors ==
    {TypedConnector(Feeder, "value", 1, spec, typecheck) :
        spec \in UNION {[1..n -> TypeNames] : n \in 1..MaxTypes},
        typecheck \in UNION {[1..n -> BOOLEAN] : n \in 1..MaxTypes}}

\* the source holds a value and a connector with types leads from it to
\* port p of the reader
InitResolve ==
    \E v \in ResolveValues, conn \in TypedConnectors :
        /\ Len(conn.typecheck) \in {1, Len(conn.spec)}
        /\ pipeline = [m \in Modules |->
                         [inputPorts |-> IF m = Reader
                                         THEN [p \in {"p"} |-> <<conn>>]
                                         ELSE [p \in {} |-> <<>>],
                          annotations |-> NoAnnotations]]
        /\ mods = [m \in Modules |->
                     IF m = Feeder
                     THEN [set_output(NewModule(m, [p \in {} |-> Ref(m, p)]),
                                      "value", v)
                             EXCEPT !.upToDate = TRUE]
                     ELSE IF m = Reader
                     THEN NewModule(m, [p \in {"p"} |-> Ref(m, p)])
                     ELSE NewModule(m, [p \in {} |-> Ref(m, p)])]
        /\ lists = [r \in {Ref(m, p) : m \in AllIds, p \in PortNames} |->
                      IF r = Ref(Reader, "p") THEN <<conn>> ELSE <<>>]
        /\ stack = <<>>
        /\ ret = NoRet
        /\ target = 0
        /\ log = [begin_compute |-> [m \in AllIds |-> 0],
                  begin_iteration |-> [m \in AllIds |-> 0]]

\* the connector of port p of the reader is called
ResolveInput ==
    /\ stack = <<>>
    /\ ret = NoRet
    /\ ret' = connector_call(lists[mods[Reader].inputPorts["p"]][1])
    /\ UNCHANGED <<mods, lists, pipeline, stack, target, log>>

NextResolve == ResolveInput

\* the call of a connector that declares types
SpecResolve == InitResolve /\ [][NextResolve]_vars

(* ------------------------------ get_input() ---------------------------- *)
\* the registry has no port spec for the port
NoPortSpec == <<>>

\* an item of a port spec: the name of its type and its default, a str or
\* None
PortSpecItem(name, default) == [descriptor |-> name, default |-> default]

\* the characters that are digits, in the order of their values
Digits == <<"0", "1", "2", "3", "4", "5", "6", "7", "8", "9",
            "a", "b", "c", "d", "e", "f">>

\* the value of the digit ch
DigitOf(ch) == (CHOOSE d \in 1..Len(Digits) : Digits[d] = ch) - 1

\* int(x, base) of the digits chars, after the value acc of the digits
\* before them
RECURSIVE ParseInt(_, _, _)
ParseInt(chars, base, acc) ==
    IF chars = <<>> THEN acc
    ELSE ParseInt(Tail(chars), base, acc * base + DigitOf(Head(chars)))

\* int_conv(x): a str that starts with 0x is read to the base 16, any
\* other to the base 10
int_conv(x) ==
    IF Len(x.chars) >= 2 /\ SubSeq(x.chars, 1, 2) = <<"0", "x">>
    THEN IntOf(ParseInt(SubSeq(x.chars, 3, Len(x.chars)), 16, 0))
    ELSE IntOf(ParseInt(x.chars, 10, 0))

\* m_klass.translate_to_python(psi.default): int_conv for Integer, str for
\* String
translate_to_python(name, x) ==
    IF name = "Integer" THEN int_conv(x) ELSE x

\* get_default_value(port_name) for a port whose spec in the registry is
\* ps: the default of the one item, the tuple of the defaults of several
\* items when each has one, None otherwise
get_default_value(ps) ==
    IF ps = NoPortSpec THEN None
    ELSE IF Len(ps) = 1
    THEN (IF ps[1].default # None
          THEN translate_to_python(ps[1].descriptor, ps[1].default)
          ELSE None)
    ELSE IF \A i \in 1..Len(ps) : ps[i].default # None
    THEN Tuple([i \in 1..Len(ps) |->
                  translate_to_python(ps[i].descriptor, ps[i].default)])
    ELSE None

\* the test of the default value that takes a value that is false for no
\* default
DefaultUsable_truthy(defaultValue) == Truthy(defaultValue)

\* if defaultValue is not None
DefaultUsable(defaultValue) == defaultValue # None

\* get_input(port_name, allow_default) of module m: the value of the first
\* connector of the port; on a port without connectors the default value of
\* the registry, or the ModuleError of a missing value
get_input(m, port_name, allow_default, ctx) ==
    IF port_name \notin DOMAIN mods[m].inputPorts
    THEN IF /\ allow_default
            /\ pipeline[m].registry
            /\ DefaultUsable(get_default_value(pipeline[m].port_spec))
         THEN Value(get_default_value(pipeline[m].port_spec))
         ELSE ModuleError(m, "Missing value from port", ctx)
    ELSE Value(Resolve(lists[mods[m].inputPorts[port_name]][1]))

\* the try block of update() for a module whose compute() puts the value
\* of one input port on its output port
ComputeReading ==
    /\ stack # <<>>
    /\ Top.pc = "compute"
    /\ ~mods[Top.m].is_breakpoint
    /\ Engine(Top.m) = "compute"
    /\ Reads(Top.m)
    /\ \E ctx \in BOOLEAN :
          LET m == Top.m
              r == get_input(m, pipeline[m].reads[1].port,
                             pipeline[m].reads[1].allow_default, ctx)
          IN IF r.type = "value"
             THEN /\ mods' = [mods EXCEPT
                                ![m] = set_output(@, "value", r.value)]
                  /\ ret' = Computed(m)
             ELSE /\ mods' = mods
                  /\ ret' = r
    /\ stack' = SetTop([Top EXCEPT !.pc = "computed"])
    /\ UNCHANGED <<lists, pipeline, target, log>>

\* the defaults an item of each type can have in the registry
ItemDefaults(name) ==
    IF name = "Integer"
    THEN {None, Str(<<"0">>), Str(<<"7">>), Str(<<"0", "x", "1", "f">>)}
    ELSE {None, Str(<<"a">>)}

\* the port specs of the registry: none, or one to MaxTypes items
PortSpecs ==
    LET items == UNION {{PortSpecItem(name, d) : d \in ItemDefaults(name)} :
                          name \in {"Integer", "String"}}
    IN {NoPortSpec} \cup UNION {[1..n -> items] : n \in 1..MaxTypes}

\* the wirings of the reader: at most one connector
InputWirings == {w \in Wirings(Reader) : NumConnectors(w) <= 1}

\* the reader reads one of its ports, with or without a connector, with or
\* without a registry that has a port spec for it
InitInput ==
    \E w \in InputWirings, port \in PortNames, allow_default \in BOOLEAN,
       registry \in BOOLEAN, ps \in PortSpecs :
        LET ws == [m \in Modules |->
                     IF m = Reader THEN w ELSE [p \in {} |-> <<>>]]
        IN /\ pipeline =
                 [m \in Modules |->
                    [inputPorts |-> ws[m],
                     annotations |-> NoAnnotations,
                     registry |-> registry,
                     port_spec |-> ps,
                     reads |-> IF m = Reader
                               THEN <<[port |-> port,
                                       allow_default |-> allow_default]>>
                               ELSE <<>>]]
           /\ mods = [m \in Modules |->
                        NewModule(m, [p \in DOMAIN ws[m] |-> Ref(m, p)])]
           /\ lists = [r \in {Ref(m, p) : m \in AllIds, p \in PortNames} |->
                         IF r[1] \in Modules /\ r[2] \in DOMAIN ws[r[1]]
                         THEN ws[r[1]][r[2]] ELSE <<>>]
           /\ stack = <<>>
           /\ ret = NoRet
           /\ target = 0
           /\ log = [begin_compute |-> [m \in AllIds |-> 0],
                     begin_iteration |-> [m \in AllIds |-> 0]]

NextInput == Next \/ ComputeReading

\* the execution of a pipeline with a module that reads an input
SpecInput == InitInput /\ [][NextInput]_vars

(* ------------------------ update_upstream_port() ----------------------- *)
\* a frame of update_upstream_port(port_name) on module m; k is the place
\* of the loop in the connector list of the port
PortFrame(m, port_name) ==
    [Frame(m) EXCEPT !.pc = "port_upstream", !.state = <<port_name>>]

\* the external caller calls update_upstream_port(port_name) on module m
PortCall(m, port_name) ==
    /\ stack = <<>>
    /\ target \in {0, m}
    /\ target' = m
    /\ stack' = <<PortFrame(m, port_name)>>
    /\ ret' = NoRet
    /\ UNCHANGED <<mods, lists, pipeline, log>>

\* the connectors update_upstream_port() goes through: those of every port
PortConnectors_all(m, port_name) == AllConnectors(mods[m].inputPorts)

\* self.inputPorts[port_name]
PortConnectors(m, port_name) == lists[mods[m].inputPorts[port_name]]

\* for connector in self.inputPorts[port_name]: connector.obj.update()
PortUpstreamCall ==
    /\ stack # <<>>
    /\ Top.pc = "port_upstream"
    /\ Top.state[1] \in DOMAIN mods[Top.m].inputPorts
    /\ LET conns == PortConnectors(Top.m, Top.state[1])
       IN /\ Top.k <= Len(conns)
          /\ stack' = Append(SetTop([Top EXCEPT !.pc = "port_upcall"]),
                             Frame(conns[Top.k].obj))
    /\ ret' = NoRet
    /\ UNCHANGED <<mods, lists, pipeline, target, log>>

\* connector.obj.update() came back into the loop of
\* update_upstream_port(): every exception leaves the method
PortUpstreamReturn ==
    /\ stack # <<>>
    /\ Top.pc = "port_upcall"
    /\ IF ret.type = "return"
       THEN /\ stack' = SetTop([Top EXCEPT !.pc = "port_upstream",
                                           !.k = @ + 1])
            /\ ret' = NoRet
       ELSE /\ stack' = Pop
            /\ ret' = ret
    /\ UNCHANGED <<mods, lists, pipeline, target, log>>

\* for connector in copy.copy(self.inputPorts[port_name]): the connectors
\* of the copied list conns whose source produced InvalidOutput are removed
RECURSIVE DropCopied(_, _, _)
DropCopied(st, port_name, conns) ==
    IF conns = <<>> THEN st
    ELSE LET connector == Head(conns)
         IN DropCopied(
                IF get_output(connector.obj, connector.port) = InvalidOutput
                THEN remove_input_connector(st, port_name, connector)
                ELSE st,
                port_name, Tail(conns))

\* update_upstream_port() is over: on a port the module does not have at
\* once, otherwise after the loop and the removal of the invalid connectors
PortUpstreamEnd ==
    /\ stack # <<>>
    /\ Top.pc = "port_upstream"
    /\ LET m == Top.m
           port_name == Top.state[1]
       IN IF port_name \notin DOMAIN mods[m].inputPorts
          THEN UNCHANGED <<mods, lists>>
          ELSE /\ Top.k > Len(PortConnectors(m, port_name))
               /\ LET st == DropCopied(
                               [ip |-> mods[m].inputPorts, h |-> lists],
                               port_name,
                               lists[mods[m].inputPorts[port_name]])
                  IN /\ mods' = [mods EXCEPT ![m].inputPorts = st.ip]
                     /\ lists' = st.h
    /\ stack' = Pop
    /\ ret' = Returned(Top.m, "update_upstream_port")
    /\ UNCHANGED <<pipeline, target, log>>

\* the deepest stack of calls the interpreter allows
RecursionLimit == 3

\* a frame of the deprecated updateUpstreamPort(port_name) on module m
DeprecatedFrame(m, port_name) ==
    [Frame(m) EXCEPT !.pc = "updateUpstreamPort", !.state = <<port_name>>]

\* the external caller calls the deprecated updateUpstreamPort(port_name)
DeprecatedCall(m, port_name) ==
    /\ stack = <<>>
    /\ target \in {0, m}
    /\ target' = m
    /\ stack' = <<DeprecatedFrame(m, port_name)>>
    /\ ret' = NoRet
    /\ UNCHANGED <<mods, lists, pipeline, log>>

\* the method updateUpstreamPort() calls: itself
DeprecatedCallee(m, port_name) == DeprecatedFrame(m, port_name)

\* return self.updateUpstreamPort(*args, **kwargs): the call, which fails
\* with RuntimeError once the stack is as deep as the interpreter allows
DeprecatedStep ==
    /\ stack # <<>>
    /\ Top.pc = "updateUpstreamPort"
    /\ IF Len(stack) >= RecursionLimit
       THEN /\ stack' = Pop
            /\ ret' = OtherException(Top.m, "RuntimeError")
       ELSE /\ stack' = Append(SetTop([Top EXCEPT !.pc = "deprecated_call"]),
                               DeprecatedCallee(Top.m, Top.state[1]))
            /\ ret' = NoRet
    /\ UNCHANGED <<mods, lists, pipeline, target, log>>

\* the call came back: what it returned or raised is passed on
DeprecatedReturn ==
    /\ stack # <<>>
    /\ Top.pc = "deprecated_call"
    /\ stack' = Pop
    /\ ret' = IF IsException(ret) THEN ret
              ELSE Returned(Top.m, "updateUpstreamPort")
    /\ UNCHANGED <<mods, lists, pipeline, target, log>>

\* a pipeline without annotations, whose modules are asked to update or to
\* update the upstream of one port
NextPort ==
    \/ Next
    \/ \E m \in Modules, p \in PortNames : PortCall(m, p)
    \/ PortUpstreamCall
    \/ PortUpstreamReturn
    \/ PortUpstreamEnd
    \/ \E m \in Modules, p \in PortNames : DeprecatedCall(m, p)
    \/ DeprecatedStep
    \/ DeprecatedReturn

\* the execution of a pipeline with calls of update_upstream_port()
SpecPort == InitSetup /\ [][NextPort]_vars

(* ------------------------------ claims --------------------------------- *)
Idle == stack = <<>>
Active(m) == \E i \in 1..Len(stack) : stack[i].m = m

\* the modules module m is wired to
Sources(m) ==
    {c.obj : c \in Range(ConnsOf(pipeline[m].inputPorts,
                                 PortsFrom(pipeline[m].inputPorts, 1)))}

\* m and every module upstream of it
RECURSIVE Reach(_)
Reach(m) == {m} \cup UNION {Reach(n) : n \in Sources(m)}

\* update() of module n has returned normally and nothing poisons n
Good(n) ==
    /\ mods[n].computed
    /\ mods[n].upToDate
    /\ ~mods[n].had_error
    /\ ~mods[n].was_suspended

\* the step that runs the first lines of update() on module Top.m
Entering == stack # <<>> /\ Top.pc = "update"

\* the step of update() returns or raises at once and changes nothing
NoOp(r) ==
    /\ stack' = Pop
    /\ ret' = r
    /\ mods' = mods
    /\ lists' = lists
    /\ log' = log

\* C1: a module is computed at most once, and update() on a module that an
\* earlier update() computed returns at once: no upstream traversal, no
\* computation (the module was computed exactly once), flags, input ports and
\* output ports as they were.
C1_CacheIdempotence ==
    /\ [](\A m \in Modules : log.begin_compute[m] <= 1)
    /\ [][(Entering /\ mods[Top.m].computed
                    /\ ~mods[Top.m].had_error /\ ~mods[Top.m].was_suspended)
            => /\ NoOp(Returned(Top.m, "computed"))
               /\ log.begin_compute[Top.m] = 1]_vars

\* the caller's second update() of a computed target has returned
C1_Witness ==
    /\ Idle
    /\ ret = Returned(target, "computed")
    /\ Sources(target) # {}

\* C2: when the computation of a module raises anything but a suspension,
\* update() raises and leaves had_error set; the module stays poisoned, and
\* every later update() of it raises ModuleHadError at once, without upstream
\* traversal or computation.
C2_PoisonPersistence ==
    [][/\ (stack # <<>> /\ Top.pc = "computed"
              /\ IsException(ret) /\ ret.type # "ModuleSuspended")
          => (stack' = Pop /\ IsException(ret') /\ mods'[Top.m].had_error)
       /\ \A m \in Modules :
             (mods[m].had_error /\ ~Active(m)) => mods'[m].had_error
       /\ (Entering /\ mods[Top.m].had_error)
          => NoOp(ModuleHadError(Top.m))]_vars

\* the caller's later update() of a target whose computation raised has failed
C2_Witness ==
    /\ Idle
    /\ ret = ModuleHadError(target)
    /\ log.begin_compute[target] = 1

\* C3: when update() of a module returns normally, that module and every
\* module upstream of it has been computed exactly once.
C3_ExactlyOnceUpstream ==
    ret.type = "return" =>
        \A n \in Reach(ret.module) : log.begin_compute[n] = 1

\* the target of a diamond (module 1 feeds 2 and 3, 2 feeds 3) has returned
C3_Witness ==
    /\ Idle
    /\ ret.type = "return"
    /\ target = 3
    /\ Sources(3) = {1, 2}
    /\ Sources(2) = {1}

\* the positions of update() from the start of the computation on
ComputePcs == {"compute", "computed", "finish"}

\* C4: while a module computes, and ever after, update() of every module
\* wired to its input ports has returned normally: none of them has failed or
\* is suspended, and none is still being updated while the module computes.
C4_UpstreamBeforeCompute ==
    /\ \A m \in Modules :
          log.begin_compute[m] > 0 => \A n \in Sources(m) : Good(n)
    /\ \A i \in 1..Len(stack) :
          stack[i].pc \in ComputePcs =>
              /\ log.begin_compute[stack[i].m] > 0
              /\ \A n \in Sources(stack[i].m) : ~Active(n)

\* a module with two upstream modules is about to compute
C4_Witness ==
    /\ stack # <<>>
    /\ Top.pc = "compute"
    /\ Cardinality(Sources(Top.m)) = 2

C6_SuccessPostcondition ==
    ret.type = "return" => Good(ret.module)

\* update() of the target returned from its last line
C6_Witness ==
    /\ Idle
    /\ ret = Returned(target, "finished")

\* C7: when the computation of a module raises a suspension, update()
\* re-raises that suspension and leaves had_error false and was_suspended
\* true; was_suspended stays set, and every later update() of the module
\* raises ModuleWasSuspended at once, without computation.
C7_SuspensionState ==
    [][/\ (stack # <<>> /\ Top.pc = "computed"
              /\ ret.type = "ModuleSuspended")
          => /\ stack' = Pop
             /\ ret' = ret
             /\ ~mods'[Top.m].had_error
             /\ mods'[Top.m].was_suspended
       /\ \A m \in Modules :
             mods[m].was_suspended => mods'[m].was_suspended
       /\ (Entering /\ mods[Top.m].was_suspended)
          => NoOp(ModuleWasSuspended(Top.m))]_vars

\* the caller's later update() of a target that suspended has failed
C7_Witness ==
    /\ Idle
    /\ ret = ModuleWasSuspended(target)
    /\ log.begin_compute[target] = 1

\* the suspensions among the results of the upstream calls of a pass
Fresh(seen) == SelectSeq(seen, LAMBDA r : r.type = "ModuleSuspended")
\* the "was suspended" poisons among them
Poisons(seen) == SelectSeq(seen, LAMBDA r : r.type = "ModuleWasSuspended")

\* the step that ends the loop of update_upstream() of module Top.m
EndOfLoop ==
    /\ stack # <<>>
    /\ Top.pc = "upstream"
    /\ Top.k > Len(AllConnectors(mods[Top.m].inputPorts))

\* C8: a suspension raised by an upstream update() does not end the loop of
\* update_upstream(): the next connector is updated; when the loop is over
\* and one upstream suspended, that suspension is raised, and when several
\* did, one ModuleSuspended whose children are all of them, in order.
C8_SuspensionCollection ==
    [][/\ (stack # <<>> /\ Top.pc = "upcall"
              /\ ret.type = "ModuleSuspended")
          => /\ Len(stack') = Len(stack)
             /\ stack'[Len(stack)].pc = "upstream"
             /\ stack'[Len(stack)].k = Top.k + 1
       /\ (EndOfLoop /\ Fresh(Top.seen) # <<>>)
          => /\ Len(Top.seen) = Len(AllConnectors(mods[Top.m].inputPorts))
             /\ stack' = Pop
             /\ IF Len(Fresh(Top.seen)) = 1
                THEN ret' = Fresh(Top.seen)[1]
                ELSE /\ ret'.type = "ModuleSuspended"
                     /\ ret'.module = Top.m
                     /\ ret'.children = Fresh(Top.seen)]_vars

\* update() of the target raised the aggregate of two upstream suspensions
C8_Witness ==
    /\ Idle
    /\ ret.type = "ModuleSuspended"
    /\ ret.module = target
    /\ Len(ret.children) = 2

\* C9 as claimed: when a pass of update_upstream() caught a "was suspended"
\* poison and a fresh suspension, it raises the poison.
C9_PoisonPreferred ==
    [][(EndOfLoop /\ Poisons(Top.seen) # <<>> /\ Fresh(Top.seen) # <<>>)
          => ret'.type = "ModuleWasSuspended"]_vars

\* C9 amended: when a pass of update_upstream() caught a "was suspended"
\* poison and a fresh suspension, it raises the fresh suspension (the
\* aggregate when there are several); the poison caught last is raised only
\* when no fresh suspension was caught.
C9_FreshPreferred ==
    [][/\ (EndOfLoop /\ Poisons(Top.seen) # <<>> /\ Fresh(Top.seen) # <<>>)
          => /\ stack' = Pop
             /\ IF Len(Fresh(Top.seen)) = 1
                THEN ret' = Fresh(Top.seen)[1]
                ELSE /\ ret'.type = "ModuleSuspended"
                     /\ ret'.module = Top.m
                     /\ ret'.children = Fresh(Top.seen)
       /\ (EndOfLoop /\ Poisons(Top.seen) # <<>> /\ Fresh(Top.seen) = <<>>)
          => ret' = Poisons(Top.seen)[Len(Poisons(Top.seen))]]_vars

\* module 1 feeds two connectors of the target: the first update() of it
\* suspended, the second raised the poison, and the target's update() raised
\* the suspension of module 1
C9_Witness ==
    /\ Idle
    /\ target = 2
    /\ NumConnectors(pipeline[2].inputPorts) = 2
    /\ mods[1].was_suspended
    /\ ret.type = "ModuleSuspended"
    /\ ret.module = 1

\* C10 as claimed: when update_upstream() has ended without raising, no
\* connector left on the input ports of the module has a source whose output
\* is InvalidOutput.
C10_NoInvalidConnectorLeft ==
    (stack # <<>> /\ Top.pc = "upstream_done") =>
        \A c \in Range(AllConnectors(mods[Top.m].inputPorts)) :
            get_output(c.obj, c.port) # InvalidOutput

\* C11: when update() of a module that is up to date but not computed has
\* come back from update_upstream(), every connector of the module has been
\* updated and every source has returned normally; update() then sets
\* computed and returns: no computation is logged for the module, now or
\* before, had_error stays clear and the output ports are as they were.
C11_CacheHit ==
    [][(stack # <<>> /\ Top.pc = "upstream_done"
           /\ mods[Top.m].upToDate /\ ~mods[Top.m].computed)
          => /\ Len(Top.seen) = NumConnectors(pipeline[Top.m].inputPorts)
             /\ \A n \in Sources(Top.m) : Good(n)
             /\ stack' = Pop
             /\ ret' = Returned(Top.m, "cached")
             /\ mods' = [mods EXCEPT ![Top.m].computed = TRUE]
             /\ ~mods'[Top.m].had_error
             /\ log' = log
             /\ log.begin_compute[Top.m] = 0]_vars

\* update() of a target that was given its value beforehand, and has two
\* connectors, returned from the cache-hit branch
C11_Witness ==
    /\ Idle
    /\ ret = Returned(target, "cached")
    /\ NumConnectors(pipeline[target].inputPorts) = 2
    /\ \A n \in Sources(target) : log.begin_compute[n] = 1

\* the step in which the except clauses of update() of module Top.m handle
\* the exception its computation raised
Handling == stack # <<>> /\ Top.pc = "computed" /\ IsException(ret)

C13_UpstreamPropagation ==
    [][/\ (stack # <<>> /\ Top.pc = "upcall" /\ ret.type = "ModuleError")
          => (stack' = Pop /\ ret' = ret /\ mods' = mods)
       /\ (EndOfLoop /\ Len(Fresh(Top.seen)) = 1)
          => (stack' = Pop /\ ret' = Fresh(Top.seen)[1] /\ mods' = mods)]_vars

\* update() of the target raised the ModuleError of a module two levels
\* upstream; the target was never computed and is not poisoned
C13_Witness ==
    /\ Idle
    /\ ret.type = "ModuleError"
    /\ ret.module \in Reach(target) \ ({target} \cup Sources(target))
    /\ log.begin_compute[target] = 0
    /\ ~mods[target].had_error

\* the annotations of the loop module
LoopAnnotations == pipeline[LoopModule].annotations

\* the cap of the loop: the __while_max__ annotation, 20 without one
Cap ==
    IF WHILE_MAX_KEY \in DOMAIN LoopAnnotations
    THEN LoopAnnotations[WHILE_MAX_KEY] ELSE DefaultMaxIterations

\* the frame of update() of the loop module is in compute_while()
InLoop(f) == f.m = LoopModule /\ f.pc \in {"while_loop", "while_call"}

\* the number of computations of the copy of the loop module so far
Runs == log.begin_compute[CloneOf(LoopModule)]

\* the step that leaves the loop of compute_while() normally
LoopExit ==
    /\ stack # <<>>
    /\ Top.pc = "while_loop"
    /\ stack'[Len(stack)].pc = "computed"

\* C17: when compute_while() leaves its loop normally and no condition port
\* is configured, the copy was computed exactly as many times as the cap
\* says; with a condition port it was computed exactly k times, where the
\* k-th computation is the first that left a false value on the condition
\* port, or as many times as the cap says if none did; the loop ends
\* without error.  A false condition ends the loop at once.
C17_IterationCount ==
    [][/\ LoopExit
          => /\ ret' = Computed(LoopModule)
             /\ Runs <= Cap
             /\ IF WHILE_COND_KEY \in DOMAIN LoopAnnotations /\ Runs < Cap
                THEN /\ Runs = Top.i + 1
                     /\ ~Truthy(get_output(CloneOf(LoopModule),
                                           LoopAnnotations[WHILE_COND_KEY]))
                ELSE Runs = Cap
       /\ (/\ stack # <<>> /\ Top.pc = "while_call" /\ ret.type = "return"
           /\ WHILE_COND_KEY \in DOMAIN LoopAnnotations
           /\ LoopAnnotations[WHILE_COND_KEY] = "value")
          => IF Truthy(get_output(CloneOf(LoopModule), "value"))
             THEN /\ stack'[Len(stack)].pc = "while_loop"
                  /\ ~stack'[Len(stack)].brk
                  /\ stack'[Len(stack)].i = Runs
             ELSE /\ stack'[Len(stack)].pc = "while_loop"
                  /\ stack'[Len(stack)].brk
       /\ (stack # <<>> /\ Top.pc = "while_loop" /\ Top.brk) => LoopExit]_vars

\* a loop with a condition and no cap of its own was ended by the condition
\* after its second iteration, and update() of the loop module returned
C17_Witness ==
    /\ Idle
    /\ ret = Returned(LoopModule, "finished")
    /\ WHILE_COND_KEY \in DOMAIN LoopAnnotations
    /\ WHILE_MAX_KEY \notin DOMAIN LoopAnnotations
    /\ Runs = 2

\* a loop without condition reached its cap of two iterations
C17_WitnessCap ==
    /\ Idle
    /\ ret = Returned(LoopModule, "finished")
    /\ WHILE_COND_KEY \notin DOMAIN LoopAnnotations
    /\ Runs = 2

\* state ports are configured on the loop module
StateConfigured ==
    /\ WHILE_INPUT_KEY \in DOMAIN LoopAnnotations
    /\ WHILE_OUTPUT_KEY \in DOMAIN LoopAnnotations

StateIn == LoopAnnotations[WHILE_INPUT_KEY]
StateOut == LoopAnnotations[WHILE_OUTPUT_KEY]

\* the copy of the loop module is about to compute in an iteration of a
\* loop with state ports
IterationComputes ==
    /\ StateConfigured
    /\ Len(stack) >= 2
    /\ Top.m = CloneOf(LoopModule)
    /\ Top.pc = "compute"

\* the index of the iteration that is running
Iteration == stack[Len(stack) - 1].i

\* the connectors the copy of the loop module has on port p
CloneConnectors(p) ==
    IF p \in DOMAIN mods[CloneOf(LoopModule)].inputPorts
    THEN lists[mods[CloneOf(LoopModule)].inputPorts[p]] ELSE <<>>

\* the copy has on its state-input port one connector, from the constant,
\* whose value is the one the copy has on its state-output port
StateInjected ==
    /\ Len(CloneConnectors(StateIn)) = 1
    /\ CloneConnectors(StateIn)[1].obj = ConstOf(LoopModule)
    /\ CloneConnectors(StateIn)[1].port = "value"
    /\ get_output(ConstOf(LoopModule), "value")
          = get_output(CloneOf(LoopModule), StateOut)

\* in iteration 0 the state-input port of the copy holds the list of
\* connectors of the loop module itself, all of them from the pipeline
StateFromPipeline ==
    StateIn \in DOMAIN mods[CloneOf(LoopModule)].inputPorts
      => /\ mods[CloneOf(LoopModule)].inputPorts[StateIn]
               = Ref(LoopModule, StateIn)
         /\ Range(CloneConnectors(StateIn))
               \subseteq Range(pipeline[LoopModule].inputPorts[StateIn])

\* C18 as claimed: when the copy computes in iteration i > 0, its
\* state-input port holds exactly one connector, which carries the value the
\* copy produced on the state-output port in iteration i-1.
C18_StateRead ==
    (IterationComputes /\ Iteration > 0) => StateInjected

\* C18 amended: in iteration 0 the copy computes with the connectors of the
\* loop module on its state-input port.  At the start of every iteration
\* i > 0 all connectors of that port are replaced by one connector from a new
\* constant whose value is what the copy produced on the state-output port
\* in iteration i-1, and the copy computes with that connector, unless the
\* value is InvalidOutput: then update_upstream() of the copy has dropped
\* the connector and the copy computes without the state-input port.
C18_StateThreading ==
    /\ [](IterationComputes =>
             IF Iteration = 0 THEN StateFromPipeline
             ELSE IF get_output(CloneOf(LoopModule), StateOut)
                        # InvalidOutput
             THEN StateInjected
             ELSE CloneConnectors(StateIn) = <<>>)
    /\ [][(/\ StateConfigured
           /\ stack # <<>> /\ Top.pc = "while_loop"
           /\ Len(stack') = Len(stack) + 1
           /\ Top.i > 0)
          => StateInjected']_vars

\* the copy of a loop module that has a connector on its state-input port
\* in the pipeline computes in iteration 1 with the injected state
C18_Witness ==
    /\ IterationComputes
    /\ Iteration = 1
    /\ StateIn \in DOMAIN pipeline[LoopModule].inputPorts
    /\ StateInjected
    /\ get_output(ConstOf(LoopModule), "value") = Val

\* the output ports a module has before it is computed
FreshOutputs(m) == NewModule(m, <<>>).outputPorts

\* C19: a suspension raised by iteration i of compute_while() is tagged with
\* loop_iteration = i and leaves compute_while(), and then update(), at
\* once; iteration i is the last one that ever runs, and the output ports of
\* the loop module are never written.
C19_LoopSuspension ==
    /\ [][(/\ stack # <<>> /\ Top.pc = "while_call"
           /\ ret.type = "ModuleSuspended")
          => (/\ ret'.type = "ModuleSuspended"
              /\ ret'.loop_iteration = IntOf(Top.i)
              /\ ret'.module = ret.module
              /\ ret'.children = ret.children
              /\ Runs = Top.i + 1
              /\ stack' = SetTop([Top EXCEPT !.pc = "computed"])
              /\ mods' = mods)]_vars
    /\ [][(/\ stack # <<>> /\ Top.pc = "computed"
           /\ Top.m = LoopModule /\ ret.type = "ModuleSuspended")
          => (/\ stack' = Pop
              /\ ret' = ret
              /\ ret.loop_iteration = IntOf(Runs - 1)
              /\ mods'[LoopModule].outputPorts
                    = FreshOutputs(LoopModule))]_vars
    /\ [][mods[LoopModule].was_suspended
          => (/\ \A x \in {LoopModule, CloneOf(LoopModule)} :
                    log'.begin_compute[x] = log.begin_compute[x]
              /\ mods'[LoopModule].outputPorts
                    = mods[LoopModule].outputPorts)]_vars

\* update() of the loop module raised the suspension of its second
\* iteration
C19_Witness ==
    /\ Idle
    /\ target = LoopModule
    /\ ret.type = "ModuleSuspended"
    /\ ret.module = CloneOf(LoopModule)
    /\ ret.loop_iteration = IntOf(1)

\* C20: when compute_while() leaves its loop normally, every output port of
\* the loop module gets the value the copy holds on the port of that name,
\* and holds it when update() has returned.
C20_LoopWriteBack ==
    /\ [][LoopExit =>
             /\ DOMAIN mods'[LoopModule].outputPorts
                   = DOMAIN mods[LoopModule].outputPorts
             /\ \A o \in DOMAIN mods[LoopModule].outputPorts :
                   mods'[LoopModule].outputPorts[o]
                     = get_output(CloneOf(LoopModule), o)
             /\ \A x \in DOMAIN mods \ {LoopModule} : mods'[x] = mods[x]]_vars
    /\ [](mods[LoopModule].computed =>
            (mods[LoopModule].outputPorts
               = mods[CloneOf(LoopModule)].outputPorts))

\* update() of the loop module returned after two iterations; its output
\* is the value of the copy
C20_Witness ==
    /\ Idle
    /\ ret = Returned(LoopModule, "finished")
    /\ Runs = 2
    /\ get_output(LoopModule, "value") = Val
    /\ get_output(LoopModule, "self") = SelfRef(CloneOf(LoopModule))

\* compute_all() of the batch module has made its copy
BatchStarted == CloneOf(BatchModule) \in DOMAIN mods

\* update() of the copy has come back into the loop of compute_all()
BatchCallBack ==
    /\ Len(stack) = 1
    /\ Top.m = BatchModule
    /\ Top.pc = "all_call"

\* compute_all() of the batch module has ended, its result is in ret
BatchOver ==
    /\ BatchStarted
    /\ Len(stack) = 1
    /\ Top.m = BatchModule
    /\ Top.pc = "computed"

\* the iteration indices the suspensions in children are tagged with
Indices(children) == [j \in 1..Len(children) |-> children[j].loop_iteration]

\* C14: compute_all() goes on after an iteration that suspended: every
\* iteration computes the copy, whatever the iterations before it did, and a
\* suspension that leaves compute_all() is the aggregate of the suspended
\* iterations: raised after all N iterations have computed, it reports
\* len(children) of N, and its children are the suspensions of the
\* iterations, each tagged with its index, in increasing order.
C14_BatchAggregation ==
    /\ BatchCallBack
          => log.begin_compute[CloneOf(BatchModule)] = Top.i + 1
    /\ (BatchOver /\ ret.type = "ModuleSuspended")
          => /\ ret.module = BatchModule
             /\ ret.args = <<Len(ret.children), Len(Top.elements)>>
             /\ log.begin_compute[CloneOf(BatchModule)] = Len(Top.elements)
             /\ \A j \in 1..Len(ret.children) :
                   /\ ret.children[j].type = "ModuleSuspended"
                   /\ ret.children[j].module = CloneOf(BatchModule)
                   /\ Indices(ret.children)[j].k = "int"
                   /\ Indices(ret.children)[j].v \in 0..(Len(Top.elements) - 1)
                   /\ j > 1 => Indices(ret.children)[j - 1].v
                                  < Indices(ret.children)[j].v

\* what does hold of C14: an iteration that follows a suspended one does not
\* compute, the copy raises ModuleWasSuspended and the loop is left; only
\* the last iteration can suspend and have compute_all() raise the
\* aggregate, which then has one child
C14_SuspensionEndsLoop ==
    /\ (BatchCallBack /\ Top.all_suspended # <<>>)
          => /\ ret = ModuleWasSuspended(CloneOf(BatchModule))
             /\ Len(Top.all_suspended) = 1
             /\ log.begin_compute[CloneOf(BatchModule)] = Top.i
    /\ (BatchOver /\ ret.type = "ModuleSuspended")
          => /\ ret.args = <<1, Len(Top.elements)>>
             /\ Indices(ret.children)
                   = <<IntOf(Len(Top.elements) - 1)>>

\* update() of the batch module failed with the ModuleWasSuspended of its
\* copy, raised by the iteration after the one that suspended
C14_Witness ==
    /\ Idle
    /\ target = BatchModule
    /\ BatchStarted
    /\ ret.type = "ModuleError"
    /\ ret.msg = "Uncaught exception"
    /\ ret.cause = ModuleWasSuspended(CloneOf(BatchModule))
    /\ log.begin_compute[CloneOf(BatchModule)] = 2

\* what the source modules hold
SourceVals == [s \in 1..(NumModules - 1) |-> get_output(s, "value")]

\* the input ports of the batch module that carry a list, in port order
OverDepthPorts == ListPorts(pipeline[BatchModule].inputPorts, SourceVals)

\* L1..Lk: the element list of each of these ports
ElementLists ==
    [j \in 1..Len(OverDepthPorts) |->
       PortList(pipeline[BatchModule].inputPorts[OverDepthPorts[j]],
                SourceVals)]

\* the product of the lengths of the lists ls from number j on
RECURSIVE Volume(_, _)
Volume(ls, j) == IF j > Len(ls) THEN 1 ELSE Len(ls[j]) * Volume(ls, j + 1)

\* the smallest of the lengths of the lists ls
Shortest(ls) ==
    CHOOSE n \in {Len(ls[j]) : j \in 1..Len(ls)} :
        \A j \in 1..Len(ls) : n <= Len(ls[j])

\* tuple number n (from 0) of the cross product of ls in lexicographic
\* order takes from list j the element whose index is digit j of n, the
\* last list being the lowest digit
Digit(ls, n, j) == (n \div Volume(ls, j + 1)) % Len(ls[j])

\* compute_all() of the batch module is in its loop
InBatch ==
    /\ stack # <<>>
    /\ stack[1].m = BatchModule
    /\ stack[1].pc \in {"all_loop", "all_call"}

\* the copy computes in an iteration of compute_all()
BatchComputes ==
    /\ Len(stack) = 2
    /\ stack[1].m = BatchModule
    /\ stack[1].pc = "all_call"
    /\ Top.m = CloneOf(BatchModule)
    /\ Top.pc = "compute"

\* the copy has on iterated port number j one connector, from a constant
\* that holds value
Receives(j, value) ==
    LET c == CloneOf(BatchModule)
        p == stack[1].ports[j]
    IN /\ p \in DOMAIN mods[c].inputPorts
       /\ Len(lists[mods[c].inputPorts[p]]) = 1
       /\ get_output(lists[mods[c].inputPorts[p]][1].obj, "value") = value

\* C15: compute_all() iterates over the ports that carry a list.  Pairwise,
\* it runs as many iterations as the shortest list has elements, and
\* iteration i gets element i of every list; cartesian, it runs as many
\* iterations as the product of the lengths, and iteration n gets tuple
\* number n of the cross product in lexicographic order.
C15_PairwiseCartesian ==
    LET ls == ElementLists
        type == loop_type(BatchModule)
    IN /\ InBatch
             => /\ stack[1].ports = OverDepthPorts
                /\ type = "pairwise"
                      => /\ Len(stack[1].elements) = Shortest(ls)
                         /\ \A i \in 1..Shortest(ls) : \A j \in 1..Len(ls) :
                               stack[1].elements[i][j] = ls[j][i]
                /\ type = "cartesian"
                      => /\ Len(stack[1].elements) = Volume(ls, 1)
                         /\ \A n \in 0..(Volume(ls, 1) - 1) :
                               \A j \in 1..Len(ls) :
                                  stack[1].elements[n + 1][j]
                                     = ls[j][Digit(ls, n, j) + 1]
       /\ BatchComputes
             => /\ stack[1].i < (IF type = "cartesian" THEN Volume(ls, 1)
                                 ELSE Shortest(ls))
                /\ \A j \in 1..Len(ls) :
                      Receives(j, IF type = "cartesian"
                                  THEN ls[j][Digit(ls, stack[1].i, j) + 1]
                                  ELSE ls[j][stack[1].i + 1])

\* cartesian over two lists of two elements: the copy computes in iteration
\* 1 with the first element of the first list and the second of the second
C15_Witness ==
    /\ BatchComputes
    /\ loop_type(BatchModule) = "cartesian"
    /\ Len(ElementLists) = 2
    /\ Len(stack[1].elements) = 4
    /\ stack[1].i = 1
    /\ Receives(1, IntOf(11))
    /\ Receives(2, IntOf(22))

\* pairwise over a list of two elements and a list of one: the only
\* iteration computes
C15_WitnessTruncated ==
    /\ BatchComputes
    /\ loop_type(BatchModule) = "pairwise"
    /\ Len(ElementLists) = 2
    /\ Len(ElementLists[1]) = 2
    /\ Len(ElementLists[2]) = 1
    /\ Len(stack[1].elements) = 1
    /\ stack[1].i = 0

\* the list compute_all() has gathered for output port o
Gathered(o) == IF o \in DOMAIN Top.outputs THEN Top.outputs[o] ELSE <<>>

\* the step that takes the normal return of the copy's update() into the
\* loop of compute_all()
BatchGathers == BatchCallBack /\ ~IsException(ret)

\* every iteration so far has put the value the copy produced on each of its
\* output ports at the end of the list of that port
GatheredInOrder ==
    /\ [](InBatch /\ Len(stack) = 1 /\ Top.all_suspended = <<>>
            => \A o \in DOMAIN Top.outputs :
                  Len(Top.outputs[o]) = Top.i)
    /\ [][BatchGathers
            => \A o \in DOMAIN mods[CloneOf(BatchModule)].outputPorts :
                  /\ o \in DOMAIN stack'[1].outputs
                  /\ stack'[1].outputs[o]
                        = Append(Gathered(o),
                                 get_output(CloneOf(BatchModule), o))]_vars

\* compute_all() returned normally and output port o of the batch module
\* is the list, of length N, of the values gathered for the port
OutputIsGathered(o) ==
    /\ get_output(BatchModule, o).k = "Iterator"
    /\ get_output(BatchModule, o).list_depth = 1
    /\ o \in DOMAIN Top.outputs
    /\ get_output(BatchModule, o).values = Top.outputs[o]
    /\ Len(get_output(BatchModule, o).values) = Len(Top.elements)

\* C16 as claimed: when all N iterations of compute_all() succeed, every
\* output port of the batch module is set to a list of length N whose entry
\* i is the value the copy produced on that port in iteration i.
C16_OutputGathering ==
    /\ GatheredInOrder
    /\ [](BatchOver /\ ret = Computed(BatchModule)
            => \A o \in DOMAIN mods[BatchModule].outputPorts :
                  OutputIsGathered(o))

\* what does hold of C16: the claim for N > 0; without an iteration no
\* output port is written
C16_GatheringNonEmpty ==
    /\ GatheredInOrder
    /\ [](BatchOver /\ ret = Computed(BatchModule)
            => IF Len(Top.elements) > 0
               THEN \A o \in DOMAIN mods[BatchModule].outputPorts :
                       OutputIsGathered(o)
               ELSE mods[BatchModule].outputPorts
                       = FreshOutputs(BatchModule))

\* compute_all() returned after two iterations that produced different
\* values
C16_Witness ==
    /\ BatchOver
    /\ ret = Computed(BatchModule)
    /\ get_output(BatchModule, "value")
          = Iterator(<<InvalidOutput, Val>>, 1)

\* compute_all() returned without an iteration and the output is not set
C16_WitnessEmpty ==
    /\ BatchOver
    /\ ret = Computed(BatchModule)
    /\ Len(OverDepthPorts) > 0
    /\ Top.elements = <<>>
    /\ get_output(BatchModule, "value") = None

\* exactly one of the two state annotations is set on the loop module
OneStateList ==
    (WHILE_INPUT_KEY \in DOMAIN LoopAnnotations)
       # (WHILE_OUTPUT_KEY \in DOMAIN LoopAnnotations)

\* the step that starts compute_while() of the loop module
LoopStarts ==
    /\ stack # <<>>
    /\ Top.m = LoopModule
    /\ Top.pc = "compute"

\* C21: with exactly one of the state-input and state-output lists
\* configured, compute_while() raises a ModuleError of the loop module about
\* the state ports as its first step: the module is not copied, no iteration
\* runs and no copy is ever updated or computed.
C21_ConfigurationCheck ==
    /\ [][(OneStateList /\ LoopStarts)
            => /\ ret'.type = "ModuleError"
               /\ ret'.module = LoopModule
               /\ ret'.msg = "Passing state between iterations"
               /\ stack' = SetTop([Top EXCEPT !.pc = "computed"])
               /\ DOMAIN mods' = DOMAIN mods
               /\ lists' = lists]_vars
    /\ [](OneStateList
            => /\ CloneOf(LoopModule) \notin DOMAIN mods
               /\ Runs = 0
               /\ \A i \in 1..Len(stack) :
                     /\ ~InLoop(stack[i])
                     /\ stack[i].m # CloneOf(LoopModule))

\* update() of a loop module that has a state-input list only failed with
\* the configuration error, and no copy exists
C21_Witness ==
    /\ Idle
    /\ target = LoopModule
    /\ WHILE_INPUT_KEY \in DOMAIN LoopAnnotations
    /\ WHILE_OUTPUT_KEY \notin DOMAIN LoopAnnotations
    /\ ret = ModuleError(LoopModule, "Passing state between iterations", TRUE)
    /\ mods[LoopModule].is_while
    /\ CloneOf(LoopModule) \notin DOMAIN mods

\* update() of module Top.m is about to run compute_streaming()
StreamStarts ==
    /\ stack # <<>>
    /\ Top.pc = "compute"
    /\ Engine(Top.m) = "compute_streaming"

\* no output port of module m holds a pull-driven Iterator
NoIterator(m) ==
    \A o \in DOMAIN mods[m].outputPorts : ~IsStream(mods[m].outputPorts[o])

\* C22 as claimed: a module annotated __loop_type__ = 'cartesian' with a
\* streamed input, at any list depth, fails in compute_streaming() with the
\* error 'Cannot use cartesian product while streaming!' and no Iterator is
\* put on its output ports.
C22_CartesianWhileStreaming ==
    [][(StreamStarts /\ loop_type(Top.m) = "cartesian")
         => (/\ ret'.type = "ModuleError"
             /\ ret'.module = Top.m
             /\ ret'.msg = "Cannot use cartesian product while streaming!"
             /\ mods' = mods)]_vars

\* what does hold of C22: the claim at a list depth other than 0; at list
\* depth 0 the annotation is not read, compute_streaming() returns normally
\* and every output port holds an Iterator
C22_CartesianAboveDepth0 ==
    [][(StreamStarts /\ loop_type(Top.m) = "cartesian")
         => IF mods[Top.m].list_depth # 0
            THEN /\ ret'.type = "ModuleError"
                 /\ ret'.module = Top.m
                 /\ ret'.msg = "Cannot use cartesian product while streaming!"
                 /\ mods' = mods
            ELSE /\ ret' = Computed(Top.m)
                 /\ \A o \in DOMAIN mods'[Top.m].outputPorts :
                       IsStream(mods'[Top.m].outputPorts[o])]_vars

\* update() of a module above list depth 0 annotated 'cartesian' failed on
\* a streamed input
C22_Witness ==
    /\ Idle
    /\ target # 0
    /\ mods[target].list_depth # 0
    /\ DOMAIN streamed_ports(target) # {}
    /\ \E ctx \in BOOLEAN : ret = CartesianError(target, ctx)
    /\ NoIterator(target)

\* update() of a module at list depth 0 annotated 'cartesian' returned
\* normally on a streamed input, with an Iterator on its output port
C22_Installed ==
    /\ Idle
    /\ target # 0
    /\ mods[target].list_depth = 0
    /\ loop_type(target) = "cartesian"
    /\ ret = Returned(target, "finished")
    /\ IsStream(get_output(target, "value"))
    /\ mods[target].generator.kind \in {"accumulate", "after_streaming"}

\* the modules whose update() ran the body of compute_streaming(): they
\* consume their streams element by element
Streaming == {g \in Modules : mods[g].generator.kind = "streaming"}

\* the consumer outside is pulling: a call of next() is under way
Forcing ==
    /\ stack # <<>>
    /\ stack[1].pc \in {"next", "pulling", "updating"}
    /\ stack[1].m = get_output(target, "value").generator

\* the number of elements the stream behind Iterator it has handed out: for
\* a source the values its generator has yielded, for a streaming module
\* the steps its generator has made
Produced(it) ==
    LET gen == mods[it.generator].generator
    IN IF gen.kind = "source" THEN gen.num_inputs - Len(gen.left)
       ELSE gen.i

\* the stream behind Iterator it is at its end
Exhausted(it) ==
    /\ mods[it.generator].generator.pos = "ended"
    /\ get_output(it.module, it.port) = None

\* every stream module g pulls is that of a source
FedBySources(g) ==
    \A j \in 1..Len(mods[g].generator.ports) :
        mods[mods[g].generator.streams[j].generator].generator.kind = "source"

\* the number of times compute() of the driver copy of module g was run
Computations(g) == log.begin_iteration[mods[g].generator.module]

StreamStep ==
    /\ stack # <<>>
    /\ Top.pc = "next"
    /\ Top.m \in Streaming
    /\ Top.k > Len(mods[Top.m].generator.ports)

\* the suspensions in the list suspended carry the steps they were raised
\* in, in rising order, each a step that was made
StepsRecorded(gen) ==
    \A a \in 1..Len(gen.suspended) :
        /\ gen.suspended[a].type = "ModuleSuspended"
        /\ gen.suspended[a].loop_iteration.k = "int"
        /\ gen.suspended[a].loop_iteration.v < gen.i
        /\ \A b \in 1..(a - 1) :
              gen.suspended[b].loop_iteration.v
                 < gen.suspended[a].loop_iteration.v

\* C24: in the generator of compute_streaming() a suspension of
\* module.compute() is kept with the number of its step and the stream goes
\* on; in the step in which an input yields None every output port of the
\* copy is set to None, nothing is computed, and the suspensions that were
\* kept are raised as one ModuleSuspended with all of them as children.
C24_EndOfStream ==
    /\ [][(StreamStep /\ ~EndOfStream(Top.elements))
            => LET gen == mods[Top.m].generator
                   after == mods'[Top.m].generator
               IN /\ ret'.type # "ModuleSuspended"
                  /\ after.suspended # gen.suspended
                        => /\ after.suspended =
                                 Append(gen.suspended,
                                        Tagged(ModuleSuspended(
                                                  gen.module,
                                                  "job is running", <<>>),
                                               gen.i))
                           /\ after.pos = "yielded"
                           /\ after.i = gen.i + 1
                           /\ ret' = Yielded(Top.m, True)]_vars
    /\ [][(StreamStep /\ EndOfStream(Top.elements))
            => LET gen == mods[Top.m].generator
               IN /\ mods'[gen.module].outputPorts
                        = [o \in {"self", "value"} |-> None]
                  /\ log' = log
                  /\ mods'[Top.m].generator.i = gen.i
                  /\ ret' = IF gen.suspended # <<>>
                            THEN StreamSuspended(Top.m, gen.suspended,
                                                 gen.num_inputs)
                            ELSE Yielded(Top.m, None)]_vars
    /\ [](\A g \in Streaming : StepsRecorded(mods[g].generator))

\* a stream of two elements ended after the computation suspended in both
\* steps: one suspension with both as children left the generator
C24_Witness ==
    /\ Idle
    /\ target \in Streaming
    /\ ret.type = "ModuleSuspended"
    /\ ret.module = target
    /\ Len(ret.children) = 2
    /\ ret.children[1].loop_iteration = IntOf(0)
    /\ ret.children[2].loop_iteration = IntOf(1)
    /\ Computations(target) = 2
    /\ get_output(mods[target].generator.module, "value") = None

\* the modules whose update() ran compute_after_streaming()
AfterStreaming == {g \in Modules : mods[g].generator.kind = "after_streaming"}

\* the stream behind Iterator it has not signalled its completion: its
\* generator has not yielded None
Arriving(it) == mods[it.generator].generator.pos \in {"start", "yielded"}

\* C25: the copy of a module that runs compute_after_streaming() is not
\* computed while its input stream has not signalled completion; in those
\* steps its output ports are set to None; it is computed once, in the step
\* in which the input stream signals completion.
C25_AfterStreaming ==
    /\ [](\A g \in AfterStreaming :
            LET gen == mods[g].generator
                c == gen.module
            IN /\ log.begin_compute[c] <= 1
               /\ log.begin_iteration[c] = 0
               /\ (\E j \in 1..Len(gen.ports) : Arriving(gen.streams[j]))
                     => /\ log.begin_compute[c] = 0
                        /\ ~mods[c].computed
                        /\ gen.pos \in {"start", "yielded"}
               /\ (Idle /\ gen.pos = "yielded")
                     => mods[c].outputPorts
                           = [o \in {"self", "value"} |-> None]
               /\ gen.pos = "ended"
                     => /\ log.begin_compute[c] = 1
                        /\ \A j \in 1..Len(gen.ports) :
                              ~Arriving(gen.streams[j]))
    /\ [][\A g \in AfterStreaming :
            LET c == mods[g].generator.module
            IN log'.begin_compute[c] # log.begin_compute[c]
                  => /\ Forcing
                     /\ \A i \in 1..Len(stack) :
                           stack[i].m = g => stack[i].pc = "updating"
                     /\ \A j \in 1..Len(mods[g].generator.ports) :
                           mods[mods[g].generator.streams[j].generator]
                              .generator.pos = "ended"]_vars

\* a module that waits for the end of its stream has waited MaxElems steps
\* and then computed once, in the step that ended the stream
C25_Witness ==
    /\ Idle
    /\ target \in AfterStreaming
    /\ ret = Yielded(target, None)
    /\ mods[target].generator.pos = "ended"
    /\ mods[target].generator.i = MaxElems
    /\ log.begin_compute[mods[target].generator.module] = 1
    /\ get_output(mods[target].generator.module, "value") = Val

(* -------- C26: a value the type rejects, on a connector of one type ---- *)
\* the connector of port p of the reader
ReadConnector == lists[mods[Reader].inputPorts["p"]][1]

\* the connector of the reader has been called
Resolved == stack = <<>> /\ ret # NoRet /\ Len(lists[Ref(Reader, "p")]) = 1

\* the connector declares one type that has a validate, is checked, and
\* carries a value that is no Iterator
SingleChecked ==
    /\ Len(ReadConnector.spec) = 1
    /\ ReadConnector.typecheck[1]
    /\ has_validate(ReadConnector.spec[1])
    /\ get_output(Feeder, "value").k # "Iterator"

\* C26: the call of a checked connector of one type fails with the
\* ModuleError of a type mismatch, which names the port, for every value
\* the validate of the type rejects, the values that are false included; it
\* does not return the value
C26_TypeMismatch ==
    (/\ Resolved
     /\ SingleChecked
     /\ ~validate(ReadConnector.spec[1], get_output(Feeder, "value")))
    => ret = TypeMismatch(Feeder, "value", ReadConnector.spec[1])

\* C26, as far as it holds: a rejected value that is true fails with the
\* ModuleError of a type mismatch, and a value the type accepts is returned
C26_TrueMismatch ==
    (Resolved /\ SingleChecked)
    => LET v == get_output(Feeder, "value")
           name == ReadConnector.spec[1]
       IN /\ (~validate(name, v) /\ Truthy(v))
               => ret = TypeMismatch(Feeder, "value", name)
          /\ validate(name, v) => ret = Value(v)

\* an int that is not 0 on a String port has failed
C26_Witness ==
    /\ Resolved
    /\ SingleChecked
    /\ get_output(Feeder, "value") = IntOf(42)
    /\ ReadConnector.spec[1] = "String"
    /\ ret.type = "ModuleError"

\* an empty str on an Integer port has been returned
C26_Returned ==
    /\ Resolved
    /\ SingleChecked
    /\ get_output(Feeder, "value") = Str(<<>>)
    /\ ReadConnector.spec[1] = "Integer"
    /\ ret = Value(Str(<<>>))

(* -------- C27: a tuple on a connector of several types, with a mask ---- *)
\* the value the call of the connector looks at
Looked ==
    LET raw == get_output(Feeder, "value")
    IN IF raw.k = "Iterator" THEN List(raw.values) ELSE raw

\* the bit of the mask at position i
MaskBit(i) ==
    IF Len(ReadConnector.typecheck) = 1 THEN ReadConnector.typecheck[1]
    ELSE ReadConnector.typecheck[i]

\* the positions of the tuple whose bit is true and whose type rejects the
\* element
Rejected ==
    {i \in 1..Len(ReadConnector.spec) :
       /\ MaskBit(i)
       /\ ReadConnector.spec[i] \in {"Integer", "String", "List"}
       /\ ~validate(ReadConnector.spec[i], Looked.values[i])}

\* C27: the call of a connector of N > 1 types returns the value unchecked
\* when the mask is one false bit; otherwise it fails with a ModuleError
\* unless the value is a tuple of N elements, fails with the ModuleError
\* that names position and port when the type of a position whose bit is
\* true rejects its element, and returns the tuple when only positions
\* whose bit is false would be rejected
C27_TupleMask ==
    (Resolved /\ Len(ReadConnector.spec) > 1)
    => IF ReadConnector.typecheck = <<FALSE>> THEN ret = Value(Looked)
       ELSE IF Looked.k # "tuple" \/ Len(Looked.values) # Len(ReadConnector.spec)
       THEN /\ ret.type = "ModuleError"
            /\ ret.module = Feeder
            /\ ret.args[1] = "value"
       ELSE IF Rejected # {}
       THEN \E i \in Rejected :
               /\ ret.type = "ModuleError"
               /\ ret.module = Feeder
               /\ ret.args = <<i - 1, "value", ReadConnector.spec[i]>>
               /\ \A j \in Rejected : i <= j
       ELSE ret = Value(Looked)

\* a tuple whose second element is rejected under a true bit has failed,
\* and the error names position 1
C27_Witness ==
    /\ Resolved
    /\ ReadConnector.spec = <<"Integer", "Integer">>
    /\ ReadConnector.typecheck = <<TRUE, TRUE>>
    /\ Looked = Tuple(<<IntOf(1), Str(<<"a">>)>>)
    /\ ret.type = "ModuleError"
    /\ ret.args = <<1, "value", "Integer">>

\* a tuple whose first element would be rejected under a false bit has been
\* returned
C27_Skipped ==
    /\ Resolved
    /\ ReadConnector.spec = <<"Integer", "String">>
    /\ ReadConnector.typecheck = <<FALSE, TRUE>>
    /\ Looked = Tuple(<<Str(<<"a">>), Str(<<"a">>)>>)
    /\ ret = Value(Looked)

\* a value that is no tuple has been returned under the mask of one false
\* bit
C27_Unchecked ==
    /\ Resolved
    /\ Len(ReadConnector.spec) > 1
    /\ ReadConnector.typecheck = <<FALSE>>
    /\ Looked = IntOf(42)
    /\ ret = Value(IntOf(42))

(* -------- C28: a list that is not as deep as the connector says -------- *)
\* the nesting of lists of value: 0 for a value that is no list, and for a
\* list one more than the least nesting of its elements
RECURSIVE Nesting(_)
Nesting(value) ==
    IF value.k # "list" THEN 0
    ELSE IF value.values = <<>> THEN 1
    ELSE LET ns == {Nesting(value.values[j]) : j \in 1..Len(value.values)}
         IN 1 + CHOOSE n \in ns : \A x \in ns : n <= x

\* the connector declares one type, is checked, and carries an Iterator
\* whose list cannot be flattened as many times as the Iterator is deep: an
\* element that is no list, str or tuple is met before
TooShallow ==
    /\ Len(ReadConnector.spec) = 1
    /\ ReadConnector.typecheck[1]
    /\ get_output(Feeder, "value").k = "Iterator"
    /\ ~FlattenRounds(Looked, 0, depth(ReadConnector)).ok

\* C28: the call of a checked connector whose value is not as deep as its
\* depth says fails with a ModuleError that names the port, the depth that
\* was reached and the depth that was expected, and with no other exception
C28_DepthMismatch ==
    (/\ Resolved
     /\ TooShallow
     /\ depth(ReadConnector) > Nesting(Looked))
    => /\ ret.type = "ModuleError"
       /\ ret.module = Feeder
       /\ ret.args[1] = "value"
       /\ ret.args[3] = depth(ReadConnector)

\* C28, as the code has it: the exception of a value that is not deep
\* enough is a TypeError, whatever the depth
C28_TypeError ==
    (Resolved /\ TooShallow) => ret = OtherException(Feeder, "TypeError")

\* an Iterator of depth 2 over a list of ints has ended in a TypeError
C28_Witness ==
    /\ Resolved
    /\ TooShallow
    /\ get_output(Feeder, "value") = Iterator(<<IntOf(1), IntOf(2)>>, 2)
    /\ Nesting(Looked) = 1
    /\ ret.type = "TypeError"

\* an Iterator of depth 1 over a list of ints, which is as deep as it says,
\* has ended in a TypeError too
C28_DeepEnough ==
    /\ Resolved
    /\ TooShallow
    /\ get_output(Feeder, "value") = Iterator(<<IntOf(1)>>, 1)
    /\ Nesting(Looked) = 1
    /\ ret.type = "TypeError"

(* ------------- C29: the copy of a module and the original -------------- *)
\* an iteration engine of module m runs on the copy of m
LoopRuns(m) ==
    \E f \in 1..Len(stack) :
        /\ stack[f].m = m
        /\ stack[f].pc \in {"while_loop", "while_call",
                            "all_loop", "all_call"}

\* the flags of module m, its input-port dict with the connectors of every
\* port, and its output-port dict
Original(m) ==
    [upToDate |-> mods[m].upToDate,
     computed |-> mods[m].computed,
     had_error |-> mods[m].had_error,
     was_suspended |-> mods[m].was_suspended,
     is_while |-> mods[m].is_while,
     is_breakpoint |-> mods[m].is_breakpoint,
     list_depth |-> mods[m].list_depth,
     inputPorts |-> [p \in DOMAIN mods[m].inputPorts |->
                       lists[mods[m].inputPorts[p]]],
     outputPorts |-> mods[m].outputPorts]

\* C29: from the step after the copy of a module is made to the step before
\* the engine writes the outputs back, no step (update of the copy, its
\* upstream traversal with the removal of invalid connectors, the
\* injection of inputs, set_output, the changes of flags) changes the
\* flags, the input ports, the connector lists or the output ports of the
\* original
C29_CloneIsolation ==
    [][\A m \in Modules :
          (LoopRuns(m) /\ LoopRuns(m)') => Original(m)' = Original(m)]_vars

\* the copy has computed within the loop, and the original is in the loop
C29_Witness ==
    \E m \in Modules :
        /\ LoopRuns(m)
        /\ CloneOf(m) \in DOMAIN mods
        /\ mods[CloneOf(m)].computed
        /\ ~mods[m].computed

\* C29, as far as it holds: between the copy and the write-back no step
\* changes the flags of the original, the keys of its input-port dict and
\* the list objects under them, or its output-port dict
C29_FlagsAndPorts ==
    [][\A m \in Modules :
          (LoopRuns(m) /\ LoopRuns(m)') => mods[m]' = mods[m]]_vars

\* the update of the copy has emptied a connector list of the original,
\* which stays under the key of the original
C29_Emptied ==
    \E m \in Modules :
        /\ LoopRuns(m)
        /\ \E p \in DOMAIN mods[m].inputPorts :
              /\ lists[mods[m].inputPorts[p]] = <<>>
              /\ p \notin DOMAIN mods[CloneOf(m)].inputPorts

(* ------------- C30: get_input() on a port without connector ------------ *)
\* the port the reader reads, and whether it allows the default
ReadPort == pipeline[Reader].reads[1].port
AllowDefault == pipeline[Reader].reads[1].allow_default

\* the reader is about to compute, and the port it reads has no connector
ReadsUnset ==
    /\ stack # <<>>
    /\ Top.m = Reader
    /\ Top.pc = "compute"
    /\ ReadPort \notin DOMAIN mods[Reader].inputPorts

\* the registry has a default for the port: a port spec whose items all
\* have one
Registered ==
    /\ pipeline[Reader].registry
    /\ pipeline[Reader].port_spec # NoPortSpec
    /\ \A i \in 1..Len(pipeline[Reader].port_spec) :
          pipeline[Reader].port_spec[i].default # None

\* the registered default as a Python value: that of the one item, or the
\* tuple of those of several items
RegisteredDefault ==
    LET ps == pipeline[Reader].port_spec
        v == [i \in 1..Len(ps) |->
                translate_to_python(ps[i].descriptor, ps[i].default)]
    IN IF Len(ps) = 1 THEN v[1] ELSE Tuple(v)

\* the exception in ret is the ModuleError of a missing value of the reader
MissingValue(e) ==
    /\ e.type = "ModuleError"
    /\ e.module = Reader
    /\ e.msg = "Missing value from port"

\* C30: get_input() on a port without connector returns the registered
\* default when allow_default is true and a default that is not None
\* exists, and raises ModuleError 'Missing value from port' otherwise; the
\* update() of a module whose compute() reads such a port fails with a
\* ModuleError and leaves the module with had_error set, not computed and
\* not up to date
C30_MissingInput ==
    [][/\ ReadsUnset =>
            IF AllowDefault /\ Registered
            THEN /\ ret' = Computed(Reader)
                 /\ get_output(Reader, "value")' = RegisteredDefault
            ELSE /\ MissingValue(ret')
                 /\ mods' = mods
       /\ (/\ stack # <<>>
           /\ Top.m = Reader
           /\ Top.pc = "computed"
           /\ MissingValue(ret))
          => /\ stack' = Pop
             /\ ret'.type = "ModuleError"
             /\ ret'.module = Reader
             /\ mods'[Reader].had_error
             /\ ~mods'[Reader].computed
             /\ ~mods'[Reader].upToDate]_vars

\* the update() of the reader has failed on the missing value of a port
\* that has a default in the registry, which the reader does not allow
C30_Witness ==
    /\ stack = <<>>
    /\ ret.type = "ModuleError"
    /\ ret.module = Reader
    /\ mods[Reader].had_error
    /\ Registered
    /\ ~AllowDefault
    /\ (ret.msg = "Missing value from port"
        \/ (ret.msg = "A dynamic module raised an exception"
            /\ MissingValue(ret.cause)))

\* the reader has computed with the default 0 of an Integer port
C30_Default ==
    /\ stack = <<>>
    /\ mods[Reader].upToDate
    /\ mods[Reader].inputPorts = [p \in {} |-> <<>>]
    /\ AllowDefault
    /\ Registered
    /\ pipeline[Reader].port_spec = <<PortSpecItem("Integer", Str(<<"0">>))>>
    /\ get_output(Reader, "value") = Zero

\* the reader has computed with the tuple of the defaults of two items
C30_TupleDefault ==
    /\ stack = <<>>
    /\ mods[Reader].upToDate
    /\ AllowDefault
    /\ get_output(Reader, "value") = Tuple(<<IntOf(31), Str(<<"a">>)>>)

(* ---------------- C31: update_upstream_port() and its port ------------- *)
\* a call of update_upstream_port() of the external caller is under way
PortRuns ==
    /\ stack # <<>>
    /\ stack[1].pc \in {"port_upstream", "port_upcall"}

\* the modules the connectors of port port_name of module m come from
SourcesOf(m, port_name) ==
    IF port_name \in DOMAIN mods[m].inputPorts
    THEN {c.obj : c \in Range(lists[mods[m].inputPorts[port_name]])}
    ELSE {}

\* the modules of S and all modules upstream of them
RECURSIVE UpClosure(_)
UpClosure(S) ==
    LET T == S \cup UNION {{c.obj : c \in Range(AllConnectors(
                                                  mods[x].inputPorts))} :
                             x \in S}
    IN IF T = S THEN S ELSE UpClosure(T)

\* C31: update_upstream_port(p) of module m calls update() only on modules
\* the connectors of port p come from, and changes no module that is not one
\* of those or upstream of one; it changes neither the flags nor the output
\* ports of m, nor the connector list of another port of m, and when it
\* returns the list of port p has lost its connectors with InvalidOutput
\* and nothing else
C31_PortFrame ==
    [][PortRuns =>
         LET m == stack[1].m
             p == stack[1].state[1]
         IN /\ (Len(stack) = 1 /\ Len(stack') = 2)
                  => stack'[2].m \in SourcesOf(m, p)
            /\ \A x \in Modules \ (UpClosure(SourcesOf(m, p)) \cup {m}) :
                  /\ mods'[x] = mods[x]
                  /\ log'.begin_compute[x] = log.begin_compute[x]
            /\ [mods'[m] EXCEPT !.inputPorts = <<>>]
                 = [mods[m] EXCEPT !.inputPorts = <<>>]
            /\ \A q \in PortNames \ {p} :
                  /\ lists'[Ref(m, q)] = lists[Ref(m, q)]
                  /\ (q \in DOMAIN mods'[m].inputPorts)
                       <=> (q \in DOMAIN mods[m].inputPorts)
            /\ lists'[Ref(m, p)] =
                 IF stack' = <<>> /\ ret'.type = "return"
                 THEN SelectSeq(lists[Ref(m, p)],
                                LAMBDA c : get_output(c.obj, c.port)
                                              # InvalidOutput)
                 ELSE lists[Ref(m, p)]]_vars

\* update_upstream_port() of a module with two ports has returned: the
\* source of its port has computed and its invalid connector is gone, the
\* source of the other port has not been updated
C31_Witness ==
    /\ stack = <<>>
    /\ ret.type = "return"
    /\ ret.how = "update_upstream_port"
    /\ \E p, q \in PortNames :
          LET m == ret.module
          IN /\ p # q
             /\ p \in DOMAIN pipeline[m].inputPorts
             /\ p \notin DOMAIN mods[m].inputPorts
             /\ q \in DOMAIN mods[m].inputPorts
             /\ \A c \in Range(lists[Ref(m, q)]) :
                   ~mods[c.obj].computed /\ ~mods[c.obj].upToDate
             /\ \A c \in Range(pipeline[m].inputPorts[p]) :
                   /\ mods[c.obj].computed
                   /\ c.obj \notin SourcesOf(m, q)

(* --------------------- C32: the choice of the engine ------------------- *)
\* the values on the connectors of the input ports of module m
InputValues(m) ==
    {get_output(c.obj, c.port) :
       c \in Range(AllConnectors(mods[m].inputPorts))}

\* an input of module m is an Iterator that is pulled
HasStreamInput(m) ==
    \E v \in InputValues(m) : v.k = "Iterator" /\ "generator" \in DOMAIN v

\* an input of module m is a list where its port takes an element
HasDeepInput(m) ==
    \E v \in InputValues(m) : v.k = "Iterator" /\ v.list_depth > 0

\* the pipeline module of m carries the condition or the bound of a while
\* loop, and m is not marked as being in one
LoopPending(m) ==
    /\ ~mods[m].is_while
    /\ mods[m].moduleId \in Modules
    /\ \E key \in {WHILE_COND_KEY, WHILE_MAX_KEY} :
          key \in DOMAIN pipeline[mods[m].moduleId].annotations

\* a module is about to compute
AtCompute ==
    /\ stack # <<>>
    /\ Top.pc = "compute"
    /\ ~mods[Top.m].is_breakpoint

\* C32: the step update() takes into the computation of a module is the
\* start of exactly one engine: of compute_streaming() when an input is a
\* pulled Iterator; otherwise of compute_all() when an input is too deep
\* for its port; otherwise of compute_while() when the module carries a
\* while annotation and is not in a loop; otherwise of compute()
C32_ModeSelection ==
    [][AtCompute =>
         LET m == Top.m
             streaming == StreamBegin
             batch == BatchBegin
             loop == WhileBegin
             direct == Compute \/ SetStreamingOutput
         IN IF HasStreamInput(m)
            THEN streaming /\ ~batch /\ ~loop /\ ~direct
            ELSE IF HasDeepInput(m)
            THEN batch /\ ~streaming /\ ~loop /\ ~direct
            ELSE IF LoopPending(m)
            THEN loop /\ ~streaming /\ ~batch /\ ~direct
            ELSE direct /\ ~streaming /\ ~batch /\ ~loop]_vars

\* a module that carries a while annotation iterates over a list
C32_Witness ==
    /\ stack # <<>>
    /\ Top.m = ModeModule
    /\ Top.pc = "all_loop"
    /\ LoopPending(ModeModule)
    /\ HasDeepInput(ModeModule)

\* a module that carries a while annotation has made a generator for its
\* streamed input
C32_Streamed ==
    /\ LoopPending(ModeModule)
    /\ HasStreamInput(ModeModule)
    /\ mods[ModeModule].generator # NoGenerator

\* the copy a batch iteration made of a module that carries a while
\* annotation has entered the while loop
C32_Nested ==
    /\ Len(stack) >= 2
    /\ Top.m = CloneOf(ModeModule)
    /\ Top.pc = "while_loop"
    /\ stack[Len(stack) - 1].pc = "all_call"

\* the copy of a while loop computes
C32_InLoop ==
    /\ Len(stack) >= 2
    /\ Top.m = CloneOf(ModeModule)
    /\ Top.pc = "computed"
    /\ ret.type = "done"
    /\ stack[Len(stack) - 1].pc = "while_call"
    /\ ~LoopPending(Top.m)

(* ------------------------ C33: the output 'self' ----------------------- *)
\* the output port 'self' of module m gives module m
SelfIsSelf(m) == get_output(m, "self") = SelfRef(m)

\* C33: between the calls of update(), the output port 'self' of every
\* module, of the copies too, gives that module
C33_SelfOutput == Idle => \A m \in DOMAIN mods : SelfIsSelf(m)

\* between the calls of update(), the output port 'self' of a module gives
\* the module unless the module was copied for a loop or a stream: it then
\* gives the copy, or it is a list or a stream; that of the copy a stream
\* computes with is the module or None
C33_SelfUnlessWrittenBack ==
    Idle =>
      \A m \in DOMAIN mods :
         \/ SelfIsSelf(m)
         \/ m \notin Modules /\ get_output(m, "self") = None
         \/ /\ CloneOf(m) \in DOMAIN mods
            /\ \/ get_output(m, "self") = SelfRef(CloneOf(m))
               \/ get_output(m, "self").k = "Iterator"

\* update() of a module returned from a loop of compute_while(); its
\* output 'self' gives the copy
C33_AfterWhile ==
    /\ Idle
    /\ ret = Returned(ModeModule, "finished")
    /\ get_output(ModeModule, "self") = SelfRef(CloneOf(ModeModule))

\* update() of a module returned from compute_all(); its output 'self' is
\* a list
C33_AfterBatch ==
    /\ Idle
    /\ ret = Returned(ModeModule, "finished")
    /\ get_output(ModeModule, "self")
          = Iterator(<<SelfRef(CloneOf(ModeModule))>>, 1)

\* update() of a module returned from compute_streaming(); its output
\* 'self' is a stream
C33_AfterStreaming ==
    /\ Idle
    /\ ret.type = "return"
    /\ get_output(ModeModule, "self").k = "Iterator"
    /\ "generator" \in DOMAIN get_output(ModeModule, "self")

\* a copy made by compute_all() was copied by compute_while(); update()
\* has returned
C33_CopyOfCopy ==
    /\ Idle
    /\ CloneOf(CloneOf(ModeModule)) \in DOMAIN mods
    /\ get_output(CloneOf(ModeModule), "self")
          = SelfRef(CloneOf(CloneOf(ModeModule)))

(* ------------------- C34: the deprecated updateUpstreamPort ------------ *)
\* the outermost call is updateUpstreamPort()
DeprecatedRuns ==
    /\ stack # <<>>
    /\ stack[1].pc \in {"updateUpstreamPort", "deprecated_call"}

\* what update_upstream_port(port_name) of module m has brought about when
\* it is over: the sources of the port are up to date and the connectors
\* with InvalidOutput are gone from its list, or an update() upstream of
\* the port raised
PortEffect(m, port_name) ==
    \/ /\ ret'.type = "return"
       /\ \A x \in SourcesOf(m, port_name) : mods'[x].upToDate
       /\ lists'[Ref(m, port_name)]
            = SelectSeq(lists[Ref(m, port_name)],
                        LAMBDA c : mods'[c.obj].outputPorts[c.port]
                                      # InvalidOutput)
    \/ /\ IsException(ret')
       /\ ret'.module \in UpClosure(SourcesOf(m, port_name))

\* C34: a call of the deprecated updateUpstreamPort(p) that is over has
\* done what update_upstream_port(p) does
C34_DeprecatedAlias ==
    [][(DeprecatedRuns /\ stack' = <<>>)
          => PortEffect(stack[1].m, stack[1].state[1])]_vars

\* a call of update_upstream_port(p) that is over has brought about its
\* effect, whatever the sources did
C34_Replacement ==
    [][(PortRuns /\ stack' = <<>>)
          => PortEffect(stack[1].m, stack[1].state[1])]_vars

\* a call of updateUpstreamPort(p) only calls itself, changes nothing, and
\* ends with the RuntimeError of the deepest call
C34_RecursionError ==
    [][DeprecatedRuns =>
         /\ mods' = mods
         /\ lists' = lists
         /\ log' = log
         /\ \A i \in 1..Len(stack') :
               /\ stack'[i].m = stack[1].m
               /\ stack'[i].pc \in {"updateUpstreamPort", "deprecated_call"}
         /\ stack' = <<>> => ret' = OtherException(stack[1].m,
                                                   "RuntimeError")]_vars

\* updateUpstreamPort(p) of a module whose port p has a source that was
\* never updated is over
C34_Raised ==
    /\ stack = <<>>
    /\ ret.type = "RuntimeError"
    /\ \E p \in DOMAIN mods[ret.module].inputPorts :
          \E x \in SourcesOf(ret.module, p) :
             ~mods[x].upToDate /\ ~mods[x].had_error

(* ----------------------- C35: the flags exclude ------------------------ *)
\* module m is not poisoned and suspended at once, and is not computed when
\* it is poisoned or suspended
FlagsExclusive(m) ==
    /\ ~(mods[m].had_error /\ mods[m].was_suspended)
    /\ (mods[m].had_error \/ mods[m].was_suspended) => ~mods[m].computed

\* C35: between the calls of update(), every module and every copy of one
\* has at most one of had_error and was_suspended set, and is not computed
\* when one of them is set
C35_FlagExclusivity == Idle => \A m \in DOMAIN mods : FlagsExclusive(m)

\* update() is over: a copy is suspended and its module is, too, and a
\* source of the module is computed
C35_Witness ==
    /\ Idle
    /\ \E c \in DOMAIN mods \ Modules :
          /\ mods[c].was_suspended
          /\ mods[mods[c].moduleId].was_suspended
    /\ \E m \in Modules : mods[m].computed

\* update() is over: a copy is poisoned and its module is, too
C35_Poisoned ==
    /\ Idle
    /\ \E c \in DOMAIN mods \ Modules :
          /\ mods[c].had_error
          /\ mods[mods[c].moduleId].had_error
          /\ mods[c].upToDate = FALSE

(* ------------------ C36: a failure upstream of a module ---------------- *)
\* update() of the module on top leaves update_upstream() with an exception
UpstreamFails ==
    /\ stack # <<>>
    /\ Top.pc \in {"upstream", "upcall"}
    /\ stack' = Pop
    /\ IsException(ret')

\* C36: when update() of a module fails in update_upstream(), on an error,
\* a poison or a suspension of an upstream update(), the flags had_error,
\* was_suspended, computed and upToDate and the output ports of the module
\* are what they were, no computation of it is logged, and its flags let
\* the next update() of it go upstream again
C36_ConsumerUntouched ==
    [][UpstreamFails =>
         LET m == Top.m
         IN /\ mods'[m].had_error = mods[m].had_error
            /\ mods'[m].was_suspended = mods[m].was_suspended
            /\ mods'[m].computed = mods[m].computed
            /\ mods'[m].upToDate = mods[m].upToDate
            /\ mods'[m].outputPorts = mods[m].outputPorts
            /\ log'.begin_compute[m] = log.begin_compute[m]
            /\ UpdateGuard(mods'[m]) = "run"]_vars

\* update() of the target found a source poisoned by an earlier failure and
\* raised its ModuleHadError; the target itself is not poisoned, was never
\* computed and another source of it is computed
C36_Witness ==
    /\ Idle
    /\ target \in Modules
    /\ ret.type = "ModuleHadError"
    /\ ret.module \in Sources(target) \ {target}
    /\ mods[ret.module].had_error
    /\ UpdateGuard(mods[target]) = "run"
    /\ log.begin_compute[target] = 0
    /\ \E s \in Sources(target) : mods[s].computed

\* update() of the target raised the suspension of a source; the target is
\* not marked as suspended
C36_Suspended ==
    /\ Idle
    /\ target \in Modules
    /\ ret.type = "ModuleSuspended"
    /\ ret.module \in Sources(target) \ {target}
    /\ ~mods[target].was_suspended
    /\ mods[ret.module].was_suspended

(* ------------------ C37: no key of an empty connector list ------------- *)
\* every key of the input-port dict of module m has a list with a
\* connector in it
KeysNonEmpty(m) ==
    \A p \in DOMAIN mods[m].inputPorts : lists[mods[m].inputPorts[p]] # <<>>

\* C37: every key of the input-port dict of every module, and of every
\* copy, has a list with a connector in it
C37_NonEmptyLists == \A m \in DOMAIN mods : KeysNonEmpty(m)

\* the input-port dict of every copy has no key of an empty list
C37_CopiesNonEmpty == \A m \in DOMAIN mods \ Modules : KeysNonEmpty(m)

\* update() of a module is over, after a loop whose copy dropped the last
\* connector of a port: has_input() of the module is true for the port and
\* the list of the port is empty
C37_Emptied ==
    /\ Idle
    /\ \E m \in Modules :
          /\ CloneOf(m) \in DOMAIN mods
          /\ \E p \in DOMAIN mods[m].inputPorts :
                /\ lists[mods[m].inputPorts[p]] = <<>>
                /\ p \notin DOMAIN mods[CloneOf(m)].inputPorts

(* --------------- C38: an error in an iteration of compute_all() -------- *)
\* update() of the copy came back into the loop of compute_all() with an
\* exception that is no suspension
IterationRaised ==
    /\ BatchCallBack
    /\ IsException(ret)
    /\ ret.type # "ModuleSuspended"

\* compute_all() of the batch module was left by an exception that is no
\* suspension: it is about to be handled by update(), or update() is over
\* and the module is poisoned, whether or not update() is called again
BatchAborted ==
    /\ BatchStarted
    /\ mods[BatchModule].had_error
    /\ \A f \in 1..Len(stack) :
          stack[f].m = BatchModule
             => \/ stack[f].pc = "update"
                \/ /\ BatchOver
                   /\ IsException(ret)
                   /\ ret.type # "ModuleSuspended"

\* C38: an exception other than a suspension that update() of the copy
\* raises in iteration k leaves compute_all() at once, k + 1 iterations
\* having begun; from then on no iteration begins and the copy does not
\* compute, the output ports of the batch module are what they were when
\* compute_all() began, and the module stays poisoned and not computed
C38_BatchAbort ==
    /\ [][IterationRaised =>
            /\ BatchAborted'
            /\ ret' = ret
            /\ mods' = mods
            /\ log.begin_iteration[CloneOf(BatchModule)] = Top.i + 1
            /\ log' = log]_vars
    /\ [](BatchAborted =>
            /\ mods[BatchModule].outputPorts = FreshOutputs(BatchModule)
            /\ ~mods[BatchModule].computed
            /\ ~mods[BatchModule].upToDate)
    /\ [][BatchAborted =>
            /\ BatchAborted'
            /\ mods'[BatchModule] = mods[BatchModule]
            /\ log'.begin_iteration[CloneOf(BatchModule)]
                  = log.begin_iteration[CloneOf(BatchModule)]
            /\ log'.begin_compute[CloneOf(BatchModule)]
                  = log.begin_compute[CloneOf(BatchModule)]]_vars

\* update() of the batch module is over: the first of two iterations
\* raised an error, the second never began, and a later update() of the
\* module has raised ModuleHadError
C38_Witness ==
    /\ Idle
    /\ BatchAborted
    /\ ret = ModuleHadError(BatchModule)
    /\ log.begin_iteration[CloneOf(BatchModule)] = 1
    /\ mods[CloneOf(BatchModule)].had_error
    /\ \E p \in DOMAIN pipeline[BatchModule].inputPorts :
          \E c \in Range(pipeline[BatchModule].inputPorts[p]) :
             /\ get_output(c.obj, c.port).k = "Iterator"
             /\ Len(get_output(c.obj, c.port).values) = 2

\* the second iteration raised an error after the first one had returned
C38_SecondRaised ==
    /\ IterationRaised
    /\ Top.i = 1
    /\ Top.outputs # <<>>
    /\ ret.type = "ModuleError"

(* ------------------- C39: one while loop for a module ------------------ *)
\* frame f of the stack is update() of the copy of a while loop that runs
LoopCopy(f) ==
    /\ f > 1
    /\ stack[f - 1].pc = "while_call"
    /\ stack[f].m = CloneOf(stack[f - 1].m)

\* C39: is_while is set when update() of a module starts compute_while(),
\* which it does only for a module whose is_while is not set, and is never
\* cleared, so no module starts compute_while() twice; the copy of the loop
\* has is_while set, its update() never runs compute_while(), and it
\* computes at most as often as the loop has iterations
C39_LoopLatch ==
    /\ [][/\ \A m \in DOMAIN mods : mods[m].is_while => mods'[m].is_while
          /\ (AtCompute /\ WhileBegin)
                => /\ ~mods[Top.m].is_while
                   /\ mods'[Top.m].is_while
                   /\ (CloneOf(Top.m) \in DOMAIN mods')
                         => mods'[CloneOf(Top.m)].is_while
          /\ (AtCompute /\ mods[Top.m].is_while) => ~WhileBegin]_vars
    /\ [](\A f \in 1..Len(stack) :
            /\ LoopCopy(f)
                  => /\ mods[stack[f].m].is_while
                     /\ stack[f].pc \notin {"while_loop", "while_call"}
                     /\ CloneOf(stack[f].m) \notin DOMAIN mods
            /\ stack[f].pc \in {"while_loop", "while_call"}
                  => /\ mods[stack[f].m].is_while
                     /\ log.begin_compute[stack[f].m] = 1
                     /\ log.begin_compute[CloneOf(stack[f].m)]
                           <= max_iterations(stack[f].m))

\* the copy of a while loop computes for the second time
C39_Witness ==
    /\ Len(stack) >= 2
    /\ LoopCopy(Len(stack))
    /\ Top.pc = "compute"
    /\ Engine(Top.m) = "compute"
    /\ ~LoopPending(Top.m)
    /\ log.begin_compute[Top.m] = 2

\* the copy a batch iteration made of an annotated module has run a while
\* loop of two iterations and is up to date
C39_CopyLooped ==
    /\ Len(stack) = 1
    /\ Top.pc = "all_call"
    /\ ret = Returned(CloneOf(Top.m), "finished")
    /\ mods[CloneOf(Top.m)].is_while
    /\ ~mods[Top.m].is_while
    /\ log.begin_compute[CloneOf(CloneOf(Top.m))] = 2

(* --------------------------- C40: termination -------------------------- *)
\* a step of the call that runs
Running == stack # <<>> /\ NextMode

\* the execution of SpecMode in which a call that runs takes its next step
SpecTermination == SpecMode /\ WF_vars(Running)

\* what a call of update() gives its caller: a return, or one of the
\* exception classes of the module protocol, which update() passes on as
\* they are
Classified ==
    {"return", "ModuleError", "ModuleErrors", "ModuleSuspended",
     "ModuleHadError", "ModuleWasSuspended", "ModuleBreakpoint"}

\* the step in which a call of update() ends, whoever called it
UpdateEnds ==
    /\ stack # <<>>
    /\ Top.pc \notin {"next", "pulling", "updating"}
    /\ stack' = Pop

\* C40: every call from outside, of update() or of next() of a stream,
\* comes to its end; every call of update() ends with a return or with an
\* exception of the module protocol; a module of the pipeline begins at
\* most one computation, and a copy at most as many as its loop has
\* iterations
C40_Termination ==
    /\ (stack # <<>>) ~> (stack = <<>>)
    /\ [][UpdateEnds => ret'.type \in Classified]_vars
    /\ [](\A m \in DOMAIN mods :
            log.begin_compute[m] <= IF m \in Modules THEN 1 ELSE MaxIter)

\* update() of the annotated module has returned after a loop of as many
\* iterations as the annotation allows, over sources it had to compute
C40_Witness ==
    /\ Idle
    /\ ret = Returned(ModeModule, "finished")
    /\ mods[ModeModule].is_while
    /\ log.begin_compute[CloneOf(ModeModule)] = MaxIter
    /\ \E s \in Modules \ {ModeModule} : log.begin_compute[s] = 1

\* update() of the module has raised the error of a computation
C40_Raised ==
    /\ Idle
    /\ target = ModeModule
    /\ ret.type = "ModuleError"
    /\ ret.module \notin Modules

====
